---- MODULE Spec2Model ----
(***************************************************************************)
(* Verification model of the Org-AI-R scoring engine                       *)
(* (pe-org-air-platform/app/scoring_engine and the batch drivers).         *)
(*                                                                         *)
(* Numbers are fixed point.  Unless a definition says otherwise:           *)
(*   scores       are in hundredths  (50.00 is 5000),                      *)
(*   confidences  are in thousandths (0.50 is 500),                        *)
(*   reliabilities and declared weights are in hundredths (0.85 is 85).    *)
(* Python dicts keep insertion order, so a dict is a sequence of           *)
(* [k |-> key, v |-> value] records.  Strings that the code inspects       *)
(* character by character are sequences of one-character strings.          *)
(***************************************************************************)
EXTENDS Integers, Sequences, FiniteSets, TLC

VARIABLES
    \* dimension pipeline (evidence_mapper.py, rubric_scorer.py, dimension_pipeline.py)
    dp_pc,            \* which entry point has returned ("idle" before any call)
    evidence_items,   \* List[EvidenceItem] given to score_dimensions_for_assessment
    source_payloads,  \* Dict[str, dict] built by build_source_payloads
    features,         \* Dict[str, DimensionFeature]
    results,          \* List[DimensionScoreResult]
    aggregated,       \* Dict[str, AggregatedDimensionScore] of EvidenceMapper
    \* sector VR aggregation (vr_model.py, sector_config.py)
    vr_pc,            \* "idle" before the first call, "done" after a call returned
    dimension_inputs, \* List[DimensionInput] of the last call
    sector_weights,   \* the sector-weight mapping of the last call
    vr_score,         \* the VR the last call returned, a fraction [n, d]
    \* composite blender (composite.py)
    comp_pc,          \* "idle" before the call, "done" after it returned
    comp_call,        \* the keyword arguments of the call
    comp_result,      \* the CompositeResult it returned
    \* rule-based synergy (synergy.py)
    syn_pc,           \* "idle" before the call, "done" after it returned
    scores_by_dim,    \* Dict[str, float] of the call
    synergy_rules,    \* List[SynergyRule] of the call
    syn_result,       \* the SynergyResult it returned
    \* talent-concentration penalty (talent_penalty.py, talent_concentration.py)
    tp_pc,            \* "idle", then "engine" or "concentration" by the function called
    tp_cfg,           \* the TalentPenaltyConfig (or keyword parameters) used
    job_functions,    \* List[str] that fetch_job_functions returned
    function_counts,  \* Dict[str, int] of jobs by function
    tp_result,        \* the result returned
    \* SEM confidence interval (sem_confidence.py)
    sem_pc,           \* where compute_sem_confidence is: "idle", "fetched", "sem",
                      \* "bootstrap", "done"
    hist_rows,        \* X_hist and y_hist, row by row
    current_row,      \* current_vec and composite_score
    fit_rows,         \* X and y given to compute_sem_confidence_intervals, row by row
    boot_iter,        \* resamples done by _bootstrap_ci
    preds,            \* the predictions collected for the row being scored, sorted
    sigmas,           \* the number of refits that succeeded (len(sigmas))
    tiers_tried,      \* the tiers entered so far, in order
    sem_result,       \* lower, upper and method_used of the dict returned
    \* batch drivers and persistence (run_scoring_engine.py, scoring_service.py)
    drv_pc,           \* where the driver is: "idle", "insert", "loop", "except",
                      \* "returned", "raised"
    drv_args,         \* which driver, version, model_version and company_ids
    run_id,           \* the id of the run inserted, 0 for None
    run_idx,          \* the position of the loop in company_ids
    stage,            \* the next step of score_one_company for that company
    scoring_runs,     \* table scoring_runs
    org_air_scores,   \* table org_air_scores
    dimension_scores, \* table dimension_scores
    scoring_audit_log, \* table scoring_audit_log
    sem_call,         \* the company, training rows and method of the last
                      \* compute_sem_confidence of the driver
    upsert_calls,     \* the calls of the upserts made on their own, in order
    \* HR factor (hr_baselines.py)
    hr_pc,            \* "idle" before the call, "done" after it returned
    hr_call,          \* what the queries of the call returned, and its parameter
    hr_result,        \* the HRResult returned
    \* dispersion penalty and portfolio priors (vr_calculator.py, run_scoring_engine.py)
    pv_pc,            \* "idle", then the function called
    pv_call,          \* the arguments of the call
    pv_result         \* what it returned

dp_vars == <<dp_pc, evidence_items, source_payloads, features, results, aggregated>>
vr_vars == <<vr_pc, dimension_inputs, sector_weights, vr_score>>
comp_vars == <<comp_pc, comp_call, comp_result>>
syn_vars == <<syn_pc, scores_by_dim, synergy_rules, syn_result>>
tp_vars == <<tp_pc, tp_cfg, job_functions, function_counts, tp_result>>
sem_vars == <<sem_pc, hist_rows, current_row, fit_rows, boot_iter, preds, sigmas,
              tiers_tried, sem_result>>

drv_vars == <<drv_pc, drv_args, run_id, run_idx, stage, scoring_runs, org_air_scores,
              dimension_scores, scoring_audit_log, sem_call>>

hr_vars == <<hr_pc, hr_call, hr_result>>

pv_vars == <<pv_pc, pv_call, pv_result>>

vars == <<dp_vars, vr_vars, comp_vars, syn_vars, tp_vars, sem_vars, drv_vars, upsert_calls,
          hr_vars, pv_vars>>

\* what a component's operation leaves alone: the other components' state
not_dp ==
    <<vr_vars, comp_vars, syn_vars, tp_vars, sem_vars, drv_vars, upsert_calls, hr_vars,
      pv_vars>>
not_vr ==
    <<dp_vars, comp_vars, syn_vars, tp_vars, sem_vars, drv_vars, upsert_calls, hr_vars,
      pv_vars>>
not_comp ==
    <<dp_vars, vr_vars, syn_vars, tp_vars, sem_vars, drv_vars, upsert_calls, hr_vars,
      pv_vars>>
not_syn ==
    <<dp_vars, vr_vars, comp_vars, tp_vars, sem_vars, drv_vars, upsert_calls, hr_vars,
      pv_vars>>
not_tp ==
    <<dp_vars, vr_vars, comp_vars, syn_vars, sem_vars, drv_vars, upsert_calls, hr_vars,
      pv_vars>>
not_sem ==
    <<dp_vars, vr_vars, comp_vars, syn_vars, tp_vars, drv_vars, upsert_calls, hr_vars,
      pv_vars>>
not_drv ==
    <<dp_vars, vr_vars, comp_vars, syn_vars, tp_vars, sem_vars, upsert_calls, hr_vars,
      pv_vars>>
not_hr ==
    <<dp_vars, vr_vars, comp_vars, syn_vars, tp_vars, sem_vars, drv_vars, upsert_calls,
      pv_vars>>
not_pv ==
    <<dp_vars, vr_vars, comp_vars, syn_vars, tp_vars, sem_vars, drv_vars, upsert_calls,
      hr_vars>>
not_ups == <<dp_vars, vr_vars, comp_vars, syn_vars, tp_vars, sem_vars, hr_vars, pv_vars>>

(***************************************************************************)
(* Generic helpers                                                         *)
(***************************************************************************)
Max(a, b) == IF a >= b THEN a ELSE b
Min(a, b) == IF a <= b THEN a ELSE b

\* max(lo, min(hi, x))
clamp(x, lo, hi) == Max(lo, Min(hi, x))

Range(s) == {s[i] : i \in 1..Len(s)}

RECURSIVE SumSeq(_)
SumSeq(s) == IF s = <<>> THEN 0 ELSE Head(s) + SumSeq(Tail(s))

\* floor(n / d) for d > 0 and any integer n
FloorDiv(n, d) == IF n >= 0 THEN n \div d ELSE -((-n + d - 1) \div d)

\* n / d rounded to the nearest integer, ties to the even neighbour
\* (Decimal.quantize and round() both round half to even); d > 0
RoundHalfEven(n, d) ==
    LET q == FloorDiv(n, d)
        r == n - q * d
    IN  IF 2 * r < d THEN q
        ELSE IF 2 * r > d THEN q + 1
        ELSE IF q % 2 = 0 THEN q ELSE q + 1

\* dict.get(k, default), `k in dict`, dict[k] = v on an insertion-ordered dict
DictHas(d, key) == \E i \in 1..Len(d) : d[i].k = key
DictGet(d, key, default) ==
    IF DictHas(d, key) THEN d[CHOOSE i \in 1..Len(d) : d[i].k = key].v ELSE default
DictPut(d, key, val) ==
    IF DictHas(d, key)
    THEN [i \in 1..Len(d) |-> IF d[i].k = key THEN [k |-> key, v |-> val] ELSE d[i]]
    ELSE Append(d, [k |-> key, v |-> val])
DictKeys(d) == {d[i].k : i \in 1..Len(d)}

(***************************************************************************)
(* mapping_config.py / evidence_mapper.py : the tables                     *)
(***************************************************************************)
DIMENSIONS ==
    << "data_infrastructure", "ai_governance", "technology_stack", "talent_skills",
       "leadership_vision", "use_case_portfolio", "culture_change" >>

Dims == Range(DIMENSIONS)

\* _profile(reliability, **weights): reliability and weights in hundredths
Profile(rel, w) == [reliability |-> rel, dim_weights |-> w]
W(dim, weight) == [k |-> dim, v |-> weight]

SOURCE_PROFILES ==
    << [k |-> "technology_hiring",
        v |-> Profile(85, << W("data_infrastructure", 10), W("technology_stack", 20),
                             W("talent_skills", 70), W("culture_change", 10) >>)],
       [k |-> "innovation_activity",
        v |-> Profile(80, << W("data_infrastructure", 20), W("technology_stack", 50),
                             W("use_case_portfolio", 30) >>)],
       [k |-> "digital_presence",
        v |-> Profile(70, << W("data_infrastructure", 60), W("technology_stack", 40) >>)],
       [k |-> "leadership_signals",
        v |-> Profile(80, << W("ai_governance", 25), W("leadership_vision", 60),
                             W("culture_change", 15) >>)],
       [k |-> "sec_item_1",
        v |-> Profile(90, << W("technology_stack", 30), W("use_case_portfolio", 70) >>)],
       [k |-> "sec_item_1a",
        v |-> Profile(90, << W("data_infrastructure", 20), W("ai_governance", 80) >>)],
       [k |-> "sec_item_7",
        v |-> Profile(90, << W("data_infrastructure", 20), W("leadership_vision", 50),
                             W("use_case_portfolio", 30) >>)],
       [k |-> "glassdoor_reviews",
        v |-> Profile(75, << W("talent_skills", 10), W("leadership_vision", 10),
                             W("culture_change", 80) >>)],
       [k |-> "board_composition",
        v |-> Profile(90, << W("ai_governance", 70), W("leadership_vision", 30) >>)],
       [k |-> "jobs",
        v |-> Profile(85, << W("data_infrastructure", 10), W("technology_stack", 20),
                             W("talent_skills", 70), W("culture_change", 10) >>)],
       [k |-> "patents",
        v |-> Profile(80, << W("data_infrastructure", 20), W("technology_stack", 50),
                             W("use_case_portfolio", 30) >>)],
       [k |-> "tech",
        v |-> Profile(70, << W("data_infrastructure", 60), W("technology_stack", 40) >>)],
       [k |-> "news",
        v |-> Profile(80, << W("ai_governance", 25), W("leadership_vision", 60),
                             W("culture_change", 15) >>)],
       [k |-> "10k",
        v |-> Profile(90, << W("data_infrastructure", 20), W("ai_governance", 20),
                             W("technology_stack", 15), W("leadership_vision", 20),
                             W("use_case_portfolio", 25) >>)] >>

\* Normalised weights are kept over this common denominator: the declared
\* weights of a profile sum to 100 or to 110 hundredths, and both divide it.
WScale == 10 * 110

\* mapping_config.normalize_weights: max(0, v) / sum(max(0, v)), all 0 when the
\* sum is <= 0.  The result is in units of 1 / WScale.
normalize_weights(weights) ==
    LET s == SumSeq([i \in 1..Len(weights) |-> Max(0, weights[i].v)])
    IN  IF s <= 0
        THEN [i \in 1..Len(weights) |-> [k |-> weights[i].k, v |-> 0]]
        ELSE [i \in 1..Len(weights) |->
                [k |-> weights[i].k, v |-> (Max(0, weights[i].v) * WScale) \div s]]

\* The keyword taxonomy, restricted to the keywords of the modelled vocabulary
\* (the lists keep the source's order; "mlops" is in two dimensions).
DIMENSION_KEYWORDS ==
    << [k |-> "data_infrastructure", v |-> << "etl", "snowflake" >>],
       [k |-> "ai_governance",       v |-> << "policy" >>],
       [k |-> "technology_stack",    v |-> << "aws", "mlops" >>],
       [k |-> "talent_skills",       v |-> << "mlops", "sql" >>],
       [k |-> "leadership_vision",   v |-> << "strategy" >>],
       [k |-> "use_case_portfolio",  v |-> << "pilot" >>],
       [k |-> "culture_change",      v |-> << "culture" >>] >>

(***************************************************************************)
(* evidence_mapper._infer_signal_bucket                                    *)
(***************************************************************************)
UPPER == << "A", "B", "C", "D", "E", "F", "G", "H", "I", "J", "K", "L", "M",
            "N", "O", "P", "Q", "R", "S", "T", "U", "V", "W", "X", "Y", "Z" >>
LOWER == << "a", "b", "c", "d", "e", "f", "g", "h", "i", "j", "k", "l", "m",
            "n", "o", "p", "q", "r", "s", "t", "u", "v", "w", "x", "y", "z" >>

\* str.lower()
LowerChar(c) ==
    IF c \in Range(UPPER) THEN LOWER[CHOOSE i \in 1..Len(UPPER) : UPPER[i] = c] ELSE c
Lower(s) == [i \in 1..Len(s) |-> LowerChar(s[i])]

\* str.strip()
RECURSIVE LStrip(_)
LStrip(s) == IF s # <<>> /\ Head(s) = " " THEN LStrip(Tail(s)) ELSE s
RECURSIVE RStrip(_)
RStrip(s) == IF s # <<>> /\ s[Len(s)] = " " THEN RStrip(SubSeq(s, 1, Len(s) - 1)) ELSE s
Strip(s) == RStrip(LStrip(s))

\* str.replace(old, new) for one-character old and new
Replace(s, old, new) == [i \in 1..Len(s) |-> IF s[i] = old THEN new ELSE s[i]]

\* `sub in s`
Contains(s, sub) ==
    \E i \in 1..(Len(s) - Len(sub) + 1) : SubSeq(s, i, i + Len(sub) - 1) = sub

EXPLICIT_BUCKETS ==
  <<[k |-> <<"t", "e", "c", "h", "n", "o", "l", "o", "g", "y", "_", "h", "i", "r", "i", "n", "g">>, v |-> "technology_hiring"],
    [k |-> <<"j", "o", "b", "s">>, v |-> "technology_hiring"],
    [k |-> <<"i", "n", "n", "o", "v", "a", "t", "i", "o", "n", "_", "a", "c", "t", "i", "v", "i", "t", "y">>, v |-> "innovation_activity"],
    [k |-> <<"p", "a", "t", "e", "n", "t", "s">>, v |-> "innovation_activity"],
    [k |-> <<"d", "i", "g", "i", "t", "a", "l", "_", "p", "r", "e", "s", "e", "n", "c", "e">>, v |-> "digital_presence"],
    [k |-> <<"t", "e", "c", "h">>, v |-> "digital_presence"],
    [k |-> <<"l", "e", "a", "d", "e", "r", "s", "h", "i", "p", "_", "s", "i", "g", "n", "a", "l", "s">>, v |-> "leadership_signals"],
    [k |-> <<"n", "e", "w", "s">>, v |-> "leadership_signals"],
    [k |-> <<"s", "e", "c", "_", "i", "t", "e", "m", "_", "1">>, v |-> "sec_item_1"],
    [k |-> <<"s", "e", "c", "_", "i", "t", "e", "m", "_", "1", "a">>, v |-> "sec_item_1a"],
    [k |-> <<"s", "e", "c", "_", "i", "t", "e", "m", "_", "7">>, v |-> "sec_item_7"],
    [k |-> <<"g", "l", "a", "s", "s", "d", "o", "o", "r", "_", "r", "e", "v", "i", "e", "w", "s">>, v |-> "glassdoor_reviews"],
    [k |-> <<"b", "o", "a", "r", "d", "_", "c", "o", "m", "p", "o", "s", "i", "t", "i", "o", "n">>, v |-> "board_composition"],
    [k |-> <<"1", "0", "k">>, v |-> "10k"] >>

_infer_signal_bucket(item) ==
    LET t == Lower(Strip(item.evidence_type))
        normalized == Replace(Replace(t, "-", "_"), " ", "_")
        has(sub) == Contains(t, sub)
    IN  IF DictHas(EXPLICIT_BUCKETS, normalized)
        THEN DictGet(EXPLICIT_BUCKETS, normalized, "")
        ELSE IF has(<<"i", "t", "e", "m", " ", "1", "a">>) THEN "sec_item_1a"
        ELSE IF has(<<"i", "t", "e", "m", " ", "7">>)
                /\ ~has(<<"i", "t", "e", "m", " ", "7", "a">>) THEN "sec_item_7"
        ELSE IF has(<<"i", "t", "e", "m", " ", "1">>)
                /\ ~has(<<"i", "t", "e", "m", " ", "1", "a">>) THEN "sec_item_1"
        ELSE IF has(<<"g", "l", "a", "s", "s", "d", "o", "o", "r">>)
                /\ has(<<"r", "e", "v", "i", "e", "w">>) THEN "glassdoor_reviews"
        ELSE IF has(<<"b", "o", "a", "r", "d">>)
                /\ (has(<<"c", "o", "m", "p", "o", "s", "i", "t", "i", "o", "n">>)
                    \/ has(<<"p", "r", "o", "x", "y">>)) THEN "board_composition"
        ELSE IF has(<<"1", "0", "-", "k">>) \/ has(<<"1", "0", "k">>)
                \/ has(<<"1", "0", " ", "q">>) \/ has(<<"1", "0", "-", "q">>) THEN "10k"
        ELSE IF has(<<"j", "o", "b">>) \/ has(<<"h", "i", "r", "i", "n", "g">>)
             THEN "technology_hiring"
        ELSE IF has(<<"p", "a", "t", "e", "n", "t">>)
                \/ has(<<"i", "n", "n", "o", "v", "a", "t", "i", "o", "n">>)
             THEN "innovation_activity"
        ELSE IF has(<<"t", "e", "c", "h">>) \/ has(<<"s", "t", "a", "c", "k">>)
                \/ has(<<"d", "i", "g", "i", "t", "a", "l">>) THEN "digital_presence"
        ELSE "leadership_signals"

(***************************************************************************)
(* evidence_mapper.map_evidence_to_dimensions (the module-level function)  *)
(* An item's text is the set of vocabulary keywords that occur in it.      *)
(***************************************************************************)
\* hits = [kw for kw in keywords if kw in t]
RECURSIVE Hits(_, _)
Hits(keywords, text) ==
    IF keywords = <<>> THEN <<>>
    ELSE IF Head(keywords) \in text
         THEN <<Head(keywords)>> \o Hits(Tail(keywords), text)
         ELSE Hits(Tail(keywords), text)

\* the inner loop over DIMENSION_KEYWORDS.items() for one item
RECURSIVE MapItem(_, _)
MapItem(item, kwtable) ==
    IF kwtable = <<>> THEN <<>>
    ELSE LET hits == Hits(Head(kwtable).v, item.text)
             rest == MapItem(item, Tail(kwtable))
         IN  IF hits # <<>>
             THEN << [dimension |-> Head(kwtable).k,
                      matched_keywords |-> SubSeq(hits, 1, Min(8, Len(hits))),
                      item |-> item] >> \o rest
             ELSE rest

RECURSIVE map_evidence_to_dimensions(_)
map_evidence_to_dimensions(items) ==
    IF items = <<>> THEN <<>>
    ELSE MapItem(Head(items), DIMENSION_KEYWORDS) \o map_evidence_to_dimensions(Tail(items))

(***************************************************************************)
(* evidence_mapper.build_source_payloads                                   *)
(***************************************************************************)
RECURSIVE CountKeywords(_, _)
CountKeywords(kwdict, kws) ==
    IF kws = <<>> THEN kwdict
    ELSE CountKeywords(DictPut(kwdict, Head(kws), DictGet(kwdict, Head(kws), 0) + 1),
                       Tail(kws))

RECURSIVE BuildPayloads(_, _)
BuildPayloads(payloads, mapped) ==
    IF mapped = <<>> THEN payloads
    ELSE LET m   == Head(mapped)
             src == _infer_signal_bucket(m.item)
             old == DictGet(payloads, src, [count |-> 0, keywords |-> <<>>])
             new == [count |-> old.count + 1,
                     keywords |-> CountKeywords(old.keywords, m.matched_keywords)]
         IN  BuildPayloads(DictPut(payloads, src, new), Tail(mapped))

\* only the evidence of the first bucket seen is counted
build_source_payloads_FirstBucketOnly(mapped) ==
    LET SameBucket(m) == _infer_signal_bucket(m.item) = _infer_signal_bucket(Head(mapped).item)
    IN  BuildPayloads(<<>>, SelectSeq(mapped, SameBucket))

build_source_payloads(mapped) == BuildPayloads(<<>>, mapped)

(***************************************************************************)
(* evidence_mapper.map_sources_to_dimension_features                       *)
(* weighted_signal and reliability_weighted are in units of                *)
(* 1 / (100 * WScale).                                                     *)
(***************************************************************************)
RECURSIVE MergeKeywords(_, _)
MergeKeywords(kwdict, kws) ==
    IF kws = <<>> THEN kwdict
    ELSE MergeKeywords(
             DictPut(kwdict, Head(kws).k, DictGet(kwdict, Head(kws).k, 0) + Head(kws).v),
             Tail(kws))

\* the loop `for dim, dim_w in w.items()` of one source
RECURSIVE AddSource(_, _, _, _)
AddSource(acc, w, prof, payload) ==
    IF w = <<>> THEN acc
    ELSE LET dim == Head(w).k
             a   == acc[dim]
             new == [weighted_signal |->
                         a.weighted_signal + payload.count * Head(w).v * prof.reliability,
                     evidence_count |-> a.evidence_count + payload.count,
                     reliability_weighted |->
                         a.reliability_weighted + Head(w).v * prof.reliability,
                     keywords |-> MergeKeywords(a.keywords, payload.keywords)]
         IN  AddSource([acc EXCEPT ![dim] = new], Tail(w), prof, payload)

RECURSIVE Accumulate(_, _)
Accumulate(acc, payloads) ==
    IF payloads = <<>> THEN acc
    ELSE IF ~DictHas(SOURCE_PROFILES, Head(payloads).k)
         THEN Accumulate(acc, Tail(payloads))
         ELSE LET prof == DictGet(SOURCE_PROFILES, Head(payloads).k, Profile(0, <<>>))
              IN  Accumulate(
                      AddSource(acc, normalize_weights(prof.dim_weights), prof,
                                Head(payloads).v),
                      Tail(payloads))

\* sorted(items, key=freq, reverse=True)[:n]: a stable sort, so equal
\* frequencies keep their insertion order
RECURSIVE TopK(_, _)
TopK(kwdict, n) ==
    IF n = 0 \/ kwdict = <<>> THEN <<>>
    ELSE LET best == CHOOSE i \in 1..Len(kwdict) :
                        /\ \A j \in 1..Len(kwdict) : kwdict[j].v <= kwdict[i].v
                        /\ \A j \in 1..(i - 1) : kwdict[j].v < kwdict[i].v
             rest == SubSeq(kwdict, 1, best - 1) \o SubSeq(kwdict, best + 1, Len(kwdict))
         IN  <<kwdict[best].k>> \o TopK(rest, n - 1)

map_sources_to_dimension_features(payloads) ==
    LET zero == [d \in Dims |-> [weighted_signal |-> 0, evidence_count |-> 0,
                                 reliability_weighted |-> 0, keywords |-> <<>>]]
        acc  == Accumulate(zero, payloads)
    IN  [i \in 1..Len(DIMENSIONS) |->
            [k |-> DIMENSIONS[i],
             v |-> [dimension |-> DIMENSIONS[i],
                    weighted_signal |-> acc[DIMENSIONS[i]].weighted_signal,
                    evidence_count |-> acc[DIMENSIONS[i]].evidence_count,
                    reliability_weighted |-> acc[DIMENSIONS[i]].reliability_weighted,
                    top_keywords |-> TopK(acc[DIMENSIONS[i]].keywords, 5)]]]

(***************************************************************************)
(* rubric_scorer.py                                                        *)
(***************************************************************************)
\* ScoreLevel: (min_score, max_score)
Level(name, lo, hi) == [name |-> name, min_score |-> lo, max_score |-> hi]
LEVEL_5 == Level("LEVEL_5", 80, 100)
LEVEL_4 == Level("LEVEL_4", 60, 79)
LEVEL_3 == Level("LEVEL_3", 40, 59)
LEVEL_2 == Level("LEVEL_2", 20, 39)
LEVEL_1 == Level("LEVEL_1", 0, 19)

\* RubricCriteria(level, keywords, min_keyword_matches, quantitative_threshold);
\* the threshold is in hundredths
Crit(level, kws, minm, thr) ==
    [level |-> level, keywords |-> kws, min_keyword_matches |-> minm,
     quantitative_threshold |-> thr]

\* _mk_levels: the criteria in the order score_dimension tries them
DIMENSION_RUBRICS ==
    << [k |-> "talent", v |-> <<
          Crit(LEVEL_5, <<"ml platform", "ai research", "large team", "principal ml", "staff ml">>, 3, 40),
          Crit(LEVEL_4, <<"data science team", "ml engineers", "active hiring", "retention">>, 2, 25),
          Crit(LEVEL_3, <<"data scientist", "growing team", "capability">>, 2, 10),
          Crit(LEVEL_2, <<"junior", "contractor", "turnover">>, 1, 3),
          Crit(LEVEL_1, <<"vendor only", "no data scientist">>, 1, 0) >>],
       [k |-> "data_infrastructure", v |-> <<
          Crit(LEVEL_5, <<"snowflake", "databricks", "real-time", "api-first">>, 2, 90),
          Crit(LEVEL_4, <<"aws", "azure", "warehouse", "etl">>, 2, 70),
          Crit(LEVEL_3, <<"migration", "hybrid", "modernizing">>, 1, 50),
          Crit(LEVEL_2, <<"legacy", "silos", "on-prem">>, 1, 30),
          Crit(LEVEL_1, <<"manual", "spreadsheet", "mainframe">>, 1, 0) >>],
       [k |-> "ai_governance", v |-> <<
          Crit(LEVEL_5, <<"caio", "cdo", "board committee", "model risk">>, 2, 85),
          Crit(LEVEL_4, <<"vp data", "ai policy", "risk framework">>, 2, 65),
          Crit(LEVEL_3, <<"director", "guidelines", "it governance">>, 1, 45),
          Crit(LEVEL_2, <<"informal", "ad-hoc", "no policy">>, 1, 20),
          Crit(LEVEL_1, <<"no oversight", "unmanaged">>, 1, 0) >>],
       [k |-> "technology_stack", v |-> <<
          Crit(LEVEL_5, <<"mlops", "feature store", "model registry", "sagemaker">>, 2, 80),
          Crit(LEVEL_4, <<"mlflow", "kubeflow", "databricks ml">>, 2, 60),
          Crit(LEVEL_3, <<"jupyter", "notebooks", "manual deploy">>, 1, 40),
          Crit(LEVEL_2, <<"excel", "tableau", "no ml">>, 1, 20),
          Crit(LEVEL_1, <<"no tools", "manual">>, 1, 0) >>],
       [k |-> "leadership", v |-> <<
          Crit(LEVEL_5, <<"ceo ai", "board committee", "ai strategy">>, 2, 80),
          Crit(LEVEL_4, <<"cto ai", "strategic priority", "executive">>, 2, 60),
          Crit(LEVEL_3, <<"vp sponsor", "department initiative">>, 1, 40),
          Crit(LEVEL_2, <<"it led", "limited awareness">>, 1, 20),
          Crit(LEVEL_1, <<"no sponsor", "not discussed">>, 1, 0) >>],
       [k |-> "use_case_portfolio", v |-> <<
          Crit(LEVEL_5, <<"production ai", "ai product", "3x roi">>, 2, 80),
          Crit(LEVEL_4, <<"production", "measured roi", "scaling">>, 2, 60),
          Crit(LEVEL_3, <<"pilot", "early production">>, 1, 40),
          Crit(LEVEL_2, <<"poc", "proof of concept">>, 1, 20),
          Crit(LEVEL_1, <<"exploring", "no use cases">>, 1, 0) >>],
       [k |-> "culture", v |-> <<
          Crit(LEVEL_5, <<"innovative", "data-driven", "fail-fast">>, 2, 75),
          Crit(LEVEL_4, <<"experimental", "learning culture">>, 1, 55),
          Crit(LEVEL_3, <<"open to change", "some resistance">>, 1, 40),
          Crit(LEVEL_2, <<"bureaucratic", "resistant", "slow">>, 1, 20),
          Crit(LEVEL_1, <<"hostile", "siloed", "no data culture">>, 1, 0) >>] >>

FEATURE_TO_RUBRIC_DIM ==
    << [k |-> "talent_skills", v |-> "talent"],
       [k |-> "leadership_vision", v |-> "leadership"],
       [k |-> "culture_change", v |-> "culture"] >>

\* _find_matches: re.search(r"\b" + kw + r"\b", text) for each rubric keyword.
\* The text is " ".join(top_keywords); every keyword of the modelled
\* vocabulary is one word, so a rubric keyword is found exactly when it is
\* one of the joined keywords.
RECURSIVE _find_matches(_, _)
_find_matches(text, keywords) ==
    IF keywords = <<>> THEN <<>>
    ELSE IF Head(keywords) \in Range(text)
         THEN <<Head(keywords)>> \o _find_matches(text, Tail(keywords))
         ELSE _find_matches(text, Tail(keywords))

\* _interpolate: round(lo + (hi - lo) * min(1, hits / needed), 2), in hundredths
_interpolate(level, keyword_hits, needed) ==
    LET lo == level.min_score
        hi == level.max_score
    IN  IF needed <= 0 \/ keyword_hits >= needed
        THEN 100 * hi
        ELSE 100 * lo + RoundHalfEven(100 * (hi - lo) * keyword_hits, needed)

\* the loop over LEVEL_5 .. LEVEL_1 of RubricScorer.score_dimension
RECURSIVE TryLevels(_, _, _, _)
TryLevels(dim, criteria, text, metric_val) ==
    IF criteria = <<>>
    THEN [dimension |-> dim, level |-> "LEVEL_1", score |-> 1000,
          keyword_match_count |-> 0, confidence |-> 400, met |-> FALSE]
    ELSE LET c == Head(criteria)
             matches == _find_matches(text, c.keywords)
         IN  IF Len(matches) >= c.min_keyword_matches
                /\ metric_val >= c.quantitative_threshold
             THEN [dimension |-> dim, level |-> c.level.name,
                   score |-> _interpolate(c.level, Len(matches), c.min_keyword_matches + 2),
                   keyword_match_count |-> Len(matches),
                   confidence |-> Min(950, 500 + 80 * Len(matches) + 3 * metric_val),
                   met |-> TRUE]
             ELSE TryLevels(dim, Tail(criteria), text, metric_val)

\* RubricScorer.score_dimension(dimension, evidence_text, quantitative_metrics);
\* metric_val is quantitative_metrics.get(metric_key, 0.0) in hundredths
score_dimension(dimension, text, metric_val) ==
    LET dim == DictGet(FEATURE_TO_RUBRIC_DIM, dimension, dimension)
    IN  TryLevels(dim, DictGet(DIMENSION_RUBRICS, dim, <<>>), text, metric_val)

_default_result(dim) ==
    [dimension |-> dim, score |-> 5000, confidence |-> 500, evidence_count |-> 0,
     top_keywords |-> <<>>, default |-> TRUE]

\* the body of the loop of score_dimension_features for one dimension:
\* `if not f` is true only for a missing key (a DimensionFeature is truthy)
ScoreFeature(feats, feature_dim) ==
    IF ~DictHas(feats, feature_dim)
    THEN _default_result(feature_dim)
    ELSE LET f  == DictGet(feats, feature_dim, _default_result(feature_dim))
             rr == score_dimension(feature_dim, f.top_keywords, 0)
         IN  [dimension |-> f.dimension,
              score |-> clamp(rr.score, 0, 10000),
              confidence |-> clamp(rr.confidence, 0, 1000),
              evidence_count |-> f.evidence_count,
              top_keywords |-> f.top_keywords,
              default |-> FALSE]

\* mutant: a dimension without a feature is skipped instead of defaulted
score_dimension_features_SkipMissing(feats) ==
    LET all == [i \in 1..Len(DIMENSIONS) |-> ScoreFeature(feats, DIMENSIONS[i])]
        Present(r) == ~r.default
    IN  SelectSeq(all, Present)

score_dimension_features(feats) ==
    [i \in 1..Len(DIMENSIONS) |-> ScoreFeature(feats, DIMENSIONS[i])]

(***************************************************************************)
(* evidence_mapper.EvidenceMapper (the CS2/CS3 evidence-score mapper)      *)
(* An EvidenceScore has a raw_score in points and a confidence in          *)
(* hundredths; its source is a SignalSource.  Every weight and reliability *)
(* of the table is a multiple of 0.05, and the accumulators count them in  *)
(* twentieths so that the sums stay within TLC's 32-bit integers; the      *)
(* quotients are the same.                                                 *)
(***************************************************************************)
Mapping(primary, pw, secondary, rel) ==
    [primary_dimension |-> primary, primary_weight |-> pw,
     secondary_mappings |-> secondary, reliability |-> rel]

SIGNAL_TO_DIMENSION_MAP ==
    << [k |-> "technology_hiring",
        v |-> Mapping("talent_skills", 70,
                      << W("technology_stack", 20), W("ai_governance", 10),
                         W("culture_change", 10) >>, 85)],
       [k |-> "innovation_activity",
        v |-> Mapping("technology_stack", 50,
                      << W("use_case_portfolio", 30), W("data_infrastructure", 20) >>, 80)],
       [k |-> "digital_presence",
        v |-> Mapping("data_infrastructure", 60, << W("technology_stack", 40) >>, 70)],
       [k |-> "leadership_signals",
        v |-> Mapping("leadership_vision", 60,
                      << W("ai_governance", 25), W("culture_change", 15) >>, 80)],
       [k |-> "sec_item_1",
        v |-> Mapping("use_case_portfolio", 70, << W("technology_stack", 30) >>, 90)],
       [k |-> "sec_item_1a",
        v |-> Mapping("ai_governance", 80, << W("data_infrastructure", 20) >>, 90)],
       [k |-> "sec_item_7",
        v |-> Mapping("leadership_vision", 50,
                      << W("use_case_portfolio", 30), W("data_infrastructure", 20) >>, 90)],
       [k |-> "glassdoor_reviews",
        v |-> Mapping("culture_change", 80,
                      << W("talent_skills", 10), W("leadership_vision", 10) >>, 75)],
       [k |-> "board_composition",
        v |-> Mapping("ai_governance", 70, << W("leadership_vision", 30) >>, 90)] >>

\* the calls of _add for one evidence score: the primary dimension, then the
\* secondary ones
RECURSIVE AddEvidence(_, _, _, _)
AddEvidence(acc, ev, rel, targets) ==
    IF targets = <<>> THEN acc
    ELSE LET dim == Head(targets).k
             wt  == Head(targets).v \div 5
             a   == acc[dim]
             new == [sums |-> a.sums + ev.raw_score * ev.confidence * (rel \div 5) * wt,
                     weights |-> a.weights + wt * ev.confidence * (rel \div 5),
                     confidence_num |-> a.confidence_num + ev.confidence * (rel \div 5) * wt,
                     confidence_den |-> a.confidence_den + wt,
                     sources |-> Append(a.sources, ev.source)]
         IN  AddEvidence([acc EXCEPT ![dim] = new], ev, rel, Tail(targets))

RECURSIVE AggregateEvidence(_, _)
AggregateEvidence(acc, evidence_scores) ==
    IF evidence_scores = <<>> THEN acc
    ELSE LET ev == Head(evidence_scores)
         IN  IF ~DictHas(SIGNAL_TO_DIMENSION_MAP, ev.source)
             THEN AggregateEvidence(acc, Tail(evidence_scores))
             ELSE LET m == DictGet(SIGNAL_TO_DIMENSION_MAP, ev.source,
                                   Mapping("", 0, <<>>, 0))
                  IN  AggregateEvidence(
                          AddEvidence(acc, ev, m.reliability,
                                      << W(m.primary_dimension, m.primary_weight) >>
                                          \o m.secondary_mappings),
                          Tail(evidence_scores))

\* EvidenceMapper.map_evidence_to_dimensions
EvidenceMapper_map_evidence_to_dimensions(evidence_scores) ==
    LET zero == [d \in Dims |-> [sums |-> 0, weights |-> 0, confidence_num |-> 0,
                                 confidence_den |-> 0, sources |-> <<>>]]
        acc  == AggregateEvidence(zero, evidence_scores)
        one(dim) ==
            LET a == acc[dim]
                score == IF a.weights > 0
                         THEN clamp(RoundHalfEven(100 * a.sums, a.weights), 0, 10000)
                         ELSE 5000
                conf  == IF a.weights > 0 /\ a.confidence_den > 0
                         THEN RoundHalfEven(a.confidence_num, 2 * a.confidence_den)
                         ELSE 500
            IN  [dimension |-> dim, score |-> score,
                 contributing_sources |-> a.sources,
                 total_weight |-> RoundHalfEven(a.weights, 4),
                 confidence |-> clamp(conf, 0, 1000)]
    IN  [i \in 1..Len(DIMENSIONS) |-> [k |-> DIMENSIONS[i], v |-> one(DIMENSIONS[i])]]

(***************************************************************************)
(* The inputs of the dimension-pipeline entry points                       *)
(***************************************************************************)
\* the longest evidence list, payload dict and evidence-score list tried
MaxItems == 2

\* evidence_type labels: an explicit tag, an alias, noisy historical labels
\* and one that nothing maps
EvidenceTypes ==
    { <<"j", "o", "b", "s">>,
      <<"S", "E", "C", "-", "I", "t", "e", "m", "-", "1", "A">>,
      <<" ", "I", "t", "e", "m", " ", "7", "A", " ">>,
      <<"1", "0", "-", "K">>,
      <<"p", "r", "e", "s", "s">> }

\* texts, as the vocabulary keywords they contain; the first matches nothing
Texts == { {}, {"mlops"}, {"etl", "policy", "culture"} }

EvidenceItems ==
    { [source |-> "document_chunk", evidence_type |-> t, text |-> x] :
        t \in EvidenceTypes, x \in Texts }

SeqsUpTo(S, n) == UNION { [1..k -> S] : k \in 0..n }

\* payloads for a direct call of map_sources_to_dimension_features: known
\* sources and one that SOURCE_PROFILES does not have
DirectPayloads ==
    { [k |-> s, v |-> [count |-> c, keywords |-> kw]] :
        s \in {"jobs", "sec_item_1a", "board_composition", "unknown_source"},
        c \in {0, 3},
        kw \in { <<>>, << [k |-> "manual", v |-> 2], [k |-> "etl", v |-> 2] >> } }

\* features for a direct call of score_dimension_features: any subset of the
\* dimensions, each feature filed under its own dimension
DirectFeature(d, n, kws) ==
    [k |-> d, v |-> [dimension |-> d, weighted_signal |-> 0, evidence_count |-> n,
                     reliability_weighted |-> 0, top_keywords |-> kws]]

RECURSIVE DirectFeatures(_, _, _, _)
DirectFeatures(present, i, n, kws) ==
    IF i > Len(DIMENSIONS) THEN <<>>
    ELSE IF DIMENSIONS[i] \in present
         THEN <<DirectFeature(DIMENSIONS[i], n, kws)>> \o DirectFeatures(present, i + 1, n, kws)
         ELSE DirectFeatures(present, i + 1, n, kws)

EvidenceScores ==
    { [source |-> s, raw_score |-> r, confidence |-> c, evidence_count |-> 1] :
        s \in {"technology_hiring", "board_composition", "glassdoor_reviews"},
        r \in {0, 37, 100},
        c \in {0, 55, 100} }

(***************************************************************************)
(* The dimension-pipeline entry points as actions                          *)
(***************************************************************************)
DimIdle ==
    /\ dp_pc = "idle"
    /\ evidence_items = <<>>
    /\ source_payloads = <<>>
    /\ features = <<>>
    /\ results = <<>>
    /\ aggregated = <<>>

\* dimension_pipeline.score_dimensions_for_assessment(evidence_items=items):
\* mapped = map_evidence_to_dimensions(items); payloads = build_source_payloads(mapped);
\* features = map_sources_to_dimension_features(payloads);
\* results = score_dimension_features(features)
ScoreDimensionsForAssessment ==
    /\ dp_pc = "idle"
    /\ \E items \in SeqsUpTo(EvidenceItems, MaxItems) :
          /\ evidence_items' = items
          /\ source_payloads' = build_source_payloads(map_evidence_to_dimensions(items))
          /\ features' = map_sources_to_dimension_features(source_payloads')
          /\ results' = score_dimension_features(features')
    /\ dp_pc' = "pipeline"
    /\ UNCHANGED aggregated
    /\ UNCHANGED not_dp

\* map_sources_to_dimension_features(source_payloads) called on its own
MapSourcesToDimensionFeatures ==
    /\ dp_pc = "idle"
    /\ \E p \in SeqsUpTo(DirectPayloads, MaxItems) :
          /\ \A i, j \in 1..Len(p) : i # j => p[i].k # p[j].k
          /\ source_payloads' = p
          /\ features' = map_sources_to_dimension_features(p)
    /\ dp_pc' = "features"
    /\ UNCHANGED <<evidence_items, results, aggregated>>
    /\ UNCHANGED not_dp

\* score_dimension_features(features) called on its own
ScoreDimensionFeatures ==
    /\ dp_pc = "idle"
    /\ \E present \in SUBSET Dims, n \in {0, 4},
          kws \in { <<>>, <<"k">>, <<"manual", "etl">> } :
          /\ features' = DirectFeatures(present, 1, n, kws)
          /\ results' = score_dimension_features(features')
    /\ dp_pc' = "scored"
    /\ UNCHANGED <<evidence_items, source_payloads, aggregated>>
    /\ UNCHANGED not_dp

\* EvidenceMapper().map_evidence_to_dimensions(evidence_scores)
EvidenceMapperMap ==
    /\ dp_pc = "idle"
    /\ \E evs \in SeqsUpTo(EvidenceScores, MaxItems) :
          aggregated' = EvidenceMapper_map_evidence_to_dimensions(evs)
    /\ dp_pc' = "aggregated"
    /\ UNCHANGED <<evidence_items, source_payloads, features, results>>
    /\ UNCHANGED not_dp

DimNext ==
    \/ ScoreDimensionsForAssessment
    \/ MapSourcesToDimensionFeatures
    \/ ScoreDimensionFeatures
    \/ EvidenceMapperMap

(***************************************************************************)
(* Sector VR aggregation: sector_config.py and vr_model.py                 *)
(*                                                                         *)
(* raw_score is counted in points and confidence in hundredths.  A         *)
(* sector-weight mapping is a record [den, w]: w is the ordered mapping    *)
(* dimension -> numerator and den > 0 the denominator all weights share    *)
(* (1 for a mapping passed as is, s or n after normalize_weights).  A VR   *)
(* is the fraction [n, d] with d > 0.                                      *)
(***************************************************************************)
DimensionInput(dimension, raw_score, confidence, evidence_count) ==
    [dimension |-> dimension, raw_score |-> raw_score,
     confidence |-> confidence, evidence_count |-> evidence_count]

confidence_floor == 20

\* sector_config.normalize_weights: s sums max(0, v), but each weight is
\* divided as it is, so a negative weight stays negative
sector_normalize_weights(weights) ==
    LET s == SumSeq([i \in 1..Len(weights) |-> Max(0, weights[i].v)])
        n == Max(1, Len(weights))
    IN  IF s <= 0
        THEN [den |-> n, w |-> [i \in 1..Len(weights) |-> [k |-> weights[i].k, v |-> 1]]]
        ELSE [den |-> s, w |-> weights]

\* load_sector_profile: rows of sector_baselines (dimension, weight), a NULL
\* dimension skipped and a NULL weight read as 0.0; no row at all gives the
\* uniform weights over the 7 default dimensions
RECURSIVE ProfileWeights(_, _)
ProfileWeights(rows, acc) ==
    IF rows = <<>> THEN acc
    ELSE LET r == Head(rows)
         IN  IF r.dimension = "NULL" THEN ProfileWeights(Tail(rows), acc)
             ELSE ProfileWeights(Tail(rows),
                     DictPut(acc, r.dimension, IF r.weight.null THEN 0 ELSE r.weight.value))

load_sector_profile(rows) ==
    LET weights == ProfileWeights(rows, <<>>)
    IN  IF weights = <<>>
        THEN [den |-> Len(DIMENSIONS),
              w |-> [i \in 1..Len(DIMENSIONS) |-> [k |-> DIMENSIONS[i], v |-> 1]]]
        ELSE sector_normalize_weights(weights)

\* the loop of compute_vr_score under the confidence floor given: numerator
\* and denom, both in units of 1/(100 * den)
RECURSIVE VRAccumulate(_, _, _, _, _)
VRAccumulate(inputs, weights, floor, numerator, denom) ==
    IF inputs = <<>> THEN [numerator |-> numerator, denom |-> denom]
    ELSE LET d == Head(inputs)
             w == DictGet(weights, d.dimension, 0)
             c == clamp(d.confidence, 0, 100)
             c_eff == Max(c, floor)
             weighted_conf == w * c_eff
             weighted_score == clamp(d.raw_score, 0, 100) * weighted_conf
         IN  VRAccumulate(Tail(inputs), weights, floor,
                          numerator + weighted_score, denom + weighted_conf)

\* clamp(numerator / denom, 0, 100) of a fraction with denom > 0
ClampFraction(numerator, denom) ==
    IF numerator < 0 THEN [n |-> 0, d |-> 1]
    ELSE IF numerator > 100 * denom THEN [n |-> 100, d |-> 1]
    ELSE [n |-> numerator, d |-> denom]

\* compute_vr_score with the final clamp left out
compute_vr_score_NoClamp(inputs, weights) ==
    LET a == VRAccumulate(inputs, weights.w, confidence_floor, 0, 0)
    IN  IF a.denom <= 0 THEN [n |-> 0, d |-> 1]
        ELSE [n |-> a.numerator, d |-> a.denom]

\* compute_vr_score with the confidence floor left out
compute_vr_score_NoFloor(inputs, weights) ==
    LET a == VRAccumulate(inputs, weights.w, 0, 0, 0)
    IN  IF a.denom <= 0 THEN [n |-> 0, d |-> 1]
        ELSE ClampFraction(a.numerator, a.denom)

compute_vr_score(inputs, weights) ==
    LET a == VRAccumulate(inputs, weights.w, confidence_floor, 0, 0)
    IN  IF a.denom <= 0 THEN [n |-> 0, d |-> 1]
        ELSE ClampFraction(a.numerator, a.denom)

(***************************************************************************)
(* Inputs of the VR aggregation                                            *)
(***************************************************************************)
MaxVRInputs == 2

\* below the range, inside it, above it
VRScores == {-20, 40, 150}
\* confidence 0, a confidence above the floor, one above 1
VRConfidences == {0, 60, 150}
VRWeights == {-1, 0, 2}

\* the i-th input scores the i-th canonical dimension; evidence_count is only
\* copied into the breakdown
VRInputs ==
    UNION { { [i \in 1..k |-> DimensionInput(DIMENSIONS[i], s[i], c[i], 1)] :
                s \in [1..k -> VRScores], c \in [1..k -> VRConfidences] } :
            k \in 0..MaxVRInputs }

\* the mapping with the keys that present marks and the weights f gives them
RECURSIVE WeightDict(_, _, _)
WeightDict(present, f, i) ==
    IF i > MaxVRInputs THEN <<>>
    ELSE IF ~present[i] THEN WeightDict(present, f, i + 1)
    ELSE <<[k |-> DIMENSIONS[i], v |-> f[i]]>> \o WeightDict(present, f, i + 1)

VRWeightMaps ==
    { [den |-> 1, w |-> WeightDict(present, f, 1)] :
        present \in [1..MaxVRInputs -> BOOLEAN], f \in [1..MaxVRInputs -> VRWeights] }

\* the weight column of a row: NULL or a number
VRRowWeights == { [null |-> TRUE, value |-> 0] } \cup { [null |-> FALSE, value |-> v] : v \in VRWeights }

\* rows of sector_baselines for one (sector, version): one per dimension
SectorRows ==
    UNION { { [i \in 1..k |-> [dimension |-> IF nul[i] THEN "NULL" ELSE DIMENSIONS[i],
                               weight |-> w[i]]] :
                nul \in [1..k -> BOOLEAN], w \in [1..k -> VRRowWeights] } :
            k \in 0..MaxVRInputs }

(***************************************************************************)
(* The VR aggregation as actions                                           *)
(***************************************************************************)
VRIdle ==
    /\ vr_pc = "idle"
    /\ dimension_inputs = <<>>
    /\ sector_weights = [den |-> 1, w |-> <<>>]
    /\ vr_score = [n |-> 0, d |-> 1]

\* profile = load_sector_profile(cur, sector, version)
LoadSectorProfile ==
    /\ vr_pc = "idle"
    /\ \E rows \in SectorRows : sector_weights' = load_sector_profile(rows)
    /\ vr_pc' = "loaded"
    /\ UNCHANGED <<dimension_inputs, vr_score>>
    /\ UNCHANGED not_vr

\* compute_vr_score(dimension_inputs, profile.weights) and
\* compute_vr_score(dimension_inputs, weights) with a mapping passed as is
ComputeVRScore ==
    /\ vr_pc \in {"idle", "loaded"}
    /\ \E inputs \in VRInputs :
          /\ dimension_inputs' = inputs
          /\ IF vr_pc = "loaded"
                THEN UNCHANGED sector_weights
                ELSE \E weights \in VRWeightMaps : sector_weights' = weights
          /\ vr_score' = compute_vr_score(inputs, sector_weights')
    /\ vr_pc' = "done"
    /\ UNCHANGED not_vr

\* a second compute_vr_score with the same weights and confidences after one
\* dimension's score went up
RecomputeAfterUplift ==
    /\ vr_pc = "done"
    /\ \E i \in 1..Len(dimension_inputs) :
          \E s \in VRScores :
             /\ s > dimension_inputs[i].raw_score
             /\ dimension_inputs' = [dimension_inputs EXCEPT ![i].raw_score = s]
    /\ vr_score' = compute_vr_score(dimension_inputs', sector_weights)
    /\ UNCHANGED <<vr_pc, sector_weights>>
    /\ UNCHANGED not_vr

VRNext ==
    \/ LoadSectorProfile
    \/ ComputeVRScore
    \/ RecomputeAfterUplift

(***************************************************************************)
(* The composite blender: composite.py                                     *)
(*                                                                         *)
(* Scores are counted in points, alpha, beta and penalty_factor in         *)
(* hundredths; the composite before rounding is counted in 1/10000 of a    *)
(* point and composite_score in hundredths of a point.  An Optional        *)
(* argument is None or Some(value).                                        *)
(***************************************************************************)
None == [none |-> TRUE, value |-> 0]
Some(v) == [none |-> FALSE, value |-> v]

_assign_score_band(score) ==
    IF score <= 20 * 10000 THEN "Nascent"
    ELSE IF score <= 40 * 10000 THEN "Developing"
    ELSE IF score <= 60 * 10000 THEN "Progressing"
    ELSE IF score <= 80 * 10000 THEN "Advanced"
    ELSE "Leading"

\* the composite before the final clamp, by the branch that takes_blend chooses
CompositeBranch(takes_blend, c) ==
    LET vr == clamp(c.vr_score, 0, 100)
    IN  IF takes_blend
        THEN LET hr == clamp(c.hr_score.value, 0, 100)
                 syn == clamp(c.synergy_score.value, 0, 100)
                 a == clamp(c.alpha, 0, 100)
                 b == clamp(c.beta, 0, 100)
             IN  (100 - b) * (a * vr + (100 - a) * hr) + b * syn * 100
        ELSE LET sb == IF c.synergy_bonus.none THEN 0 ELSE c.synergy_bonus.value
                 pf == clamp(IF c.penalty_factor.none THEN 100 ELSE c.penalty_factor.value,
                             0, 100)
             IN  (vr + sb) * pf * 100

\* CompositeResult: round(composite, 2) and the band of the unrounded value
CompositeResult(composite) ==
    [composite_score |-> RoundHalfEven(composite, 100),
     score_band |-> _assign_score_band(composite)]

\* compute_composite taking the blend as soon as hr_score is supplied
compute_composite_HrOnly(c) ==
    CompositeResult(clamp(CompositeBranch(~c.hr_score.none, c), 0, 100 * 10000))

compute_composite(c) ==
    CompositeResult(clamp(
        CompositeBranch(~c.hr_score.none /\ ~c.synergy_score.none, c), 0, 100 * 10000))

\* the arguments of a call
CompScores == {-10, 37, 100, 130}
CompOptionalScores == {None} \cup {Some(v) : v \in {-5, 40, 50, 80, 120}}
CompFractions == {-20, 7, 12, 25, 60, 150}
CompBonuses == {None} \cup {Some(v) : v \in {-15, 0, 10}}
CompFactors == {None} \cup {Some(v) : v \in {-50, 85, 150}}

CompIdle ==
    /\ comp_pc = "idle"
    /\ comp_call = [vr_score |-> 0, hr_score |-> None, synergy_score |-> None,
                    alpha |-> 60, beta |-> 12, synergy_bonus |-> None,
                    penalty_factor |-> None]
    /\ comp_result = [composite_score |-> 0, score_band |-> "Nascent"]

\* compute_composite(vr_score=..., hr_score=..., synergy_score=..., alpha=...,
\* beta=..., synergy_bonus=..., penalty_factor=...) with any of the Optional
\* arguments left out
ComputeComposite ==
    /\ comp_pc = "idle"
    /\ \E vr \in CompScores, hr \in CompOptionalScores, syn \in CompOptionalScores,
          a \in CompFractions, b \in CompFractions,
          sb \in CompBonuses, pf \in CompFactors :
          comp_call' = [vr_score |-> vr, hr_score |-> hr, synergy_score |-> syn,
                        alpha |-> a, beta |-> b, synergy_bonus |-> sb,
                        penalty_factor |-> pf]
    /\ comp_result' = compute_composite(comp_call')
    /\ comp_pc' = "done"
    /\ UNCHANGED not_comp

\* score_one_company: compute_composite(vr_score=vr_adj, hr_score=hr_score,
\* synergy_score=formula_syn.synergy_score, alpha=0.60, beta=0.12)
ScoreCompanyComposite ==
    /\ comp_pc = "idle"
    /\ \E vr \in CompScores, hr \in {0, 75, 100}, syn \in {0, 52, 100} :
          comp_call' = [vr_score |-> vr, hr_score |-> Some(hr), synergy_score |-> Some(syn),
                        alpha |-> 60, beta |-> 12, synergy_bonus |-> None,
                        penalty_factor |-> None]
    /\ comp_result' = compute_composite(comp_call')
    /\ comp_pc' = "done"
    /\ UNCHANGED not_comp

CompNext ==
    \/ ComputeComposite
    \/ ScoreCompanyComposite

(***************************************************************************)
(* Rule-based synergy: synergy.py                                          *)
(*                                                                         *)
(* Scores, thresholds, magnitudes and the cap are counted in points.       *)
(***************************************************************************)
SynergyRule(dim_a, dim_b, synergy_type, threshold, magnitude) ==
    [dim_a |-> dim_a, dim_b |-> dim_b, synergy_type |-> synergy_type,
     threshold |-> threshold, magnitude |-> magnitude]

\* the loop with a negative rule activated by dim_a alone
RuleActivated_DragIgnoresB(scores, r) ==
    LET a == DictGet(scores, r.dim_a, 0)
        b == DictGet(scores, r.dim_b, 0)
    IN  IF r.synergy_type = "positive" THEN (a >= r.threshold) /\ (b >= r.threshold)
        ELSE IF r.synergy_type = "negative" THEN a >= r.threshold
        ELSE FALSE

\* one pass of the loop of compute_synergy: whether the rule is activated
RuleActivated(scores, r) ==
    LET a == DictGet(scores, r.dim_a, 0)
        b == DictGet(scores, r.dim_b, 0)
    IN  IF r.synergy_type = "positive" THEN (a >= r.threshold) /\ (b >= r.threshold)
        ELSE IF r.synergy_type = "negative" THEN (a >= r.threshold) /\ (b < r.threshold)
        ELSE FALSE

RECURSIVE SynergyLoop(_, _, _, _)
SynergyLoop(scores, rules, total, hits) ==
    IF rules = <<>> THEN [total |-> total, hits |-> hits]
    ELSE LET r == Head(rules)
             activated == RuleActivated(scores, r)
         IN  SynergyLoop(scores, Tail(rules),
                         IF activated THEN total + r.magnitude ELSE total,
                         Append(hits, [dim_a |-> r.dim_a, dim_b |-> r.dim_b,
                                       synergy_type |-> r.synergy_type,
                                       activated |-> activated]))

compute_synergy(scores, rules, cap_abs) ==
    LET l == SynergyLoop(scores, rules, 0, <<>>)
    IN  [synergy_bonus |-> clamp(l.total, -cap_abs, cap_abs),
         cap |-> cap_abs, hits |-> l.hits]

MaxRules == 2

\* rules over two scored dimensions and one that scores_by_dim does not have
SynergyRules ==
    { SynergyRule(p[1], p[2], t, 60, m) :
        p \in { <<"leadership_vision", "use_case_portfolio">>,
                <<"use_case_portfolio", "leadership_vision">>,
                <<"leadership_vision", "talent_skills">> },
        t \in {"positive", "negative", "unexpected"},
        m \in {-10, 10} }

\* scores below, at and above the threshold
SynergyScores ==
    { << [k |-> "leadership_vision", v |-> a], [k |-> "use_case_portfolio", v |-> b] >> :
        a \in {40, 60, 75}, b \in {40, 60} }

SynIdle ==
    /\ syn_pc = "idle"
    /\ scores_by_dim = <<>>
    /\ synergy_rules = <<>>
    /\ syn_result = [synergy_bonus |-> 0, cap |-> 15, hits |-> <<>>]

\* compute_synergy(scores_by_dim, rules, cap_abs=...)
ComputeSynergy ==
    /\ syn_pc = "idle"
    /\ \E scores \in SynergyScores, rules \in SeqsUpTo(SynergyRules, MaxRules),
          cap_abs \in {5, 15} :
          /\ scores_by_dim' = scores
          /\ synergy_rules' = rules
          /\ syn_result' = compute_synergy(scores, rules, cap_abs)
    /\ syn_pc' = "done"
    /\ UNCHANGED not_syn

SynNext == ComputeSynergy

(***************************************************************************)
(* Talent-concentration penalty: scoring_engine/talent_penalty.py and      *)
(* scoring/talent_concentration.py                                         *)
(*                                                                         *)
(* Thresholds and factors are counted in hundredths.  An HHI is the exact  *)
(* fraction [n, d] = sum of squared counts over squared total, d > 0.      *)
(***************************************************************************)
TalentPenaltyConfig(mild, severe, factor_mild, factor_severe, min_size) ==
    [hhi_threshold_mild |-> mild, hhi_threshold_severe |-> severe,
     penalty_factor_mild |-> factor_mild, penalty_factor_severe |-> factor_severe,
     min_sample_size |-> min_size]

\* load_talent_penalty_config: the row of talent_penalty_config, or the safe
\* defaults when there is none
load_talent_penalty_config(row) ==
    IF row.none THEN TalentPenaltyConfig(40, 70, 95, 85, 15) ELSE row.value

\* counts[f] = counts.get(f, 0) + 1 for each function of the list
RECURSIVE CountFunctions(_, _)
CountFunctions(functions, counts) ==
    IF functions = <<>> THEN counts
    ELSE CountFunctions(Tail(functions),
                        DictPut(counts, Head(functions), DictGet(counts, Head(functions), 0) + 1))

\* the squared counts divided by the total once instead of twice
HHIOfCounts_DividedOnce(counts, total) ==
    [n |-> SumSeq([i \in 1..Len(counts) |-> counts[i].v * counts[i].v]),
     d |-> total]

\* sum of share * share over the counts, each share c / total
HHIOfCounts(counts, total) ==
    [n |-> SumSeq([i \in 1..Len(counts) |-> counts[i].v * counts[i].v]),
     d |-> total * total]

\* talent_penalty.compute_hhi(functions) -> (hhi, counts)
compute_hhi(functions) ==
    LET counts == CountFunctions(functions, <<>>)
        n == Len(functions)
    IN  [hhi |-> IF n = 0 THEN [n |-> 0, d |-> 1] ELSE HHIOfCounts(counts, n),
         counts |-> counts]

\* hhi >= threshold, the threshold in hundredths
HHIAtLeast(hhi, threshold) == 100 * hhi.n >= threshold * hhi.d

\* the factor both implementations select once the minimum sample is met
SelectFactor(hhi, mild, severe, factor_mild, factor_severe) ==
    IF HHIAtLeast(hhi, severe) THEN factor_severe
    ELSE IF HHIAtLeast(hhi, mild) THEN factor_mild
    ELSE 100

TalentPenaltyResult(hhi, factor, sample_size, min_sample_met, counts) ==
    [hhi_value |-> hhi, penalty_factor |-> factor, sample_size |-> sample_size,
     min_sample_met |-> min_sample_met, function_counts |-> counts]

\* compute_talent_penalty with the minimum-sample gate left out
compute_talent_penalty_NoGate(cfg, functions) ==
    LET h == compute_hhi(functions)
    IN  TalentPenaltyResult(h.hhi,
            clamp(SelectFactor(h.hhi, cfg.hhi_threshold_mild, cfg.hhi_threshold_severe,
                               cfg.penalty_factor_mild, cfg.penalty_factor_severe), 0, 100),
            Len(functions), Len(functions) >= cfg.min_sample_size, h.counts)

\* compute_talent_penalty, cfg and functions being what
\* load_talent_penalty_config and fetch_job_functions returned
compute_talent_penalty(cfg, functions) ==
    LET sample_size == Len(functions)
        h == compute_hhi(functions)
    IN  IF sample_size < cfg.min_sample_size
        THEN TalentPenaltyResult(h.hhi, 100, sample_size, FALSE, h.counts)
        ELSE TalentPenaltyResult(h.hhi,
                clamp(SelectFactor(h.hhi, cfg.hhi_threshold_mild, cfg.hhi_threshold_severe,
                                   cfg.penalty_factor_mild, cfg.penalty_factor_severe), 0, 100),
                sample_size, TRUE, h.counts)

\* talent_concentration.compute_hhi(function_counts)
concentration_compute_hhi(counts) ==
    LET total == SumSeq([i \in 1..Len(counts) |-> counts[i].v])
    IN  IF total <= 0 THEN [n |-> 0, d |-> 1] ELSE HHIOfCounts(counts, total)

\* talent_concentration.compute_talent_concentration(function_counts,
\* min_sample_size, hhi_mild, hhi_severe, penalty_mild, penalty_severe)
compute_talent_concentration(counts, cfg) ==
    LET sample_size == SumSeq([i \in 1..Len(counts) |-> counts[i].v])
        min_met == sample_size >= cfg.min_sample_size
        hhi == concentration_compute_hhi(counts)
        penalty_factor ==
            IF min_met
            THEN SelectFactor(hhi, cfg.hhi_threshold_mild, cfg.hhi_threshold_severe,
                              cfg.penalty_factor_mild, cfg.penalty_factor_severe)
            ELSE 100
    IN  TalentPenaltyResult(hhi, clamp(penalty_factor, 0, 100), sample_size, min_met, counts)

MaxJobs == 4

JobFunctions == {"data_engineering", "ml_engineering", "other"}

\* configurations: thresholds that the HHI of a small sample meets exactly,
\* factors inside and outside [0, 1], the severe factor below and above the
\* mild one (the table row is read as it is)
TalentConfigs ==
    { TalentPenaltyConfig(t[1], t[2], fm, fs, m) :
        t \in { <<40, 70>>, <<50, 100>> }, fm \in {95, 120}, fs \in {85, -10, 98},
        m \in {0, 3, 5} }

\* Dict[str, int] of function counts for a direct call
FunctionCounts ==
    { << [k |-> "data_engineering", v |-> a], [k |-> "other", v |-> b] >> :
        a \in {0, 1, 3, 9}, b \in {0, 1, 3} }

TalentIdle ==
    /\ tp_pc = "idle"
    /\ tp_cfg = TalentPenaltyConfig(40, 70, 95, 85, 15)
    /\ job_functions = <<>>
    /\ function_counts = <<>>
    /\ tp_result = TalentPenaltyResult([n |-> 0, d |-> 1], 100, 0, FALSE, <<>>)

\* compute_talent_penalty(cur, company_id=..., version=...)
ComputeTalentPenalty ==
    /\ tp_pc = "idle"
    /\ \E has_row \in BOOLEAN, c \in TalentConfigs,
          functions \in SeqsUpTo(JobFunctions, MaxJobs) :
          /\ tp_cfg' = load_talent_penalty_config(IF has_row THEN Some(c) ELSE None)
          /\ job_functions' = functions
          /\ tp_result' = compute_talent_penalty(tp_cfg', functions)
          /\ function_counts' = tp_result'.function_counts
    /\ tp_pc' = "engine"
    /\ UNCHANGED not_tp

\* compute_talent_concentration(function_counts, ...) with the default or
\* with explicit parameters
ComputeTalentConcentration ==
    /\ tp_pc = "idle"
    /\ \E counts \in FunctionCounts,
          cfg \in {TalentPenaltyConfig(40, 70, 92, 80, 25)} \cup TalentConfigs :
          /\ tp_cfg' = cfg
          /\ function_counts' = counts
          /\ tp_result' = compute_talent_concentration(counts, cfg)
    /\ tp_pc' = "concentration"
    /\ UNCHANGED job_functions
    /\ UNCHANGED not_tp

TalentNext ==
    \/ ComputeTalentPenalty
    \/ ComputeTalentConcentration

(***************************************************************************)
(* SEM confidence interval: sem_confidence.py                              *)
(*                                                                         *)
(* A row is [x, y]: y the composite score and x the level of its           *)
(* dimension vector, all 7 dimension scores of a row being equal to x.     *)
(* The loadings of _pca_one_factor_loadings are non-negative and sum to 1  *)
(* (uniform when the eigenvector sums to 0), so for such rows eta = X @    *)
(* loadings is x whatever the loadings.  Scores are multiples of Unit      *)
(* points; bounds are counted in hundredths of a point.  The sums of OLS   *)
(* are exact; a square root is taken in fixed point.                       *)
(***************************************************************************)
Unit == 4 * 5

\* floor of the square root, by bisection
RECURSIVE ISqrtIn(_, _, _)
ISqrtIn(v, lo, hi) ==
    IF lo >= hi THEN lo
    ELSE LET mid == (lo + hi + 1) \div 2
         IN  IF mid * mid <= v THEN ISqrtIn(v, mid, hi) ELSE ISqrtIn(v, lo, mid - 1)

ISqrt(v) == ISqrtIn(v, 0, Min(v, 46340))

\* _compute_eta: the latent score of each row
_compute_eta(rows) == [i \in 1..Len(rows) |-> rows[i].x \div Unit]

\* the sums of _ols_fit over eta and y, each scaled by n: SXX = n * Sxx,
\* SXY = n * Sxy, SYY = n * SStot
OLSSums(rows) ==
    LET n == Len(rows)
        eta == _compute_eta(rows)
        y == [i \in 1..n |-> rows[i].y \div Unit]
        Sx == SumSeq(eta)
        Sy == SumSeq(y)
    IN  [n |-> n, Sx |-> Sx, Sy |-> Sy,
         SXX |-> n * SumSeq([i \in 1..n |-> eta[i] * eta[i]]) - Sx * Sx,
         SXY |-> n * SumSeq([i \in 1..n |-> eta[i] * y[i]]) - Sx * Sy,
         SYY |-> n * SumSeq([i \in 1..n |-> y[i] * y[i]]) - Sy * Sy]

\* _ols_fit: raises ValueError when Sxx <= 1e-12, which for these sums is
\* SXX = 0; sigma is counted in 1/100 of a Unit
_ols_fit(rows) ==
    LET s == OLSSums(rows)
        dof == Max(1, s.n - 2)
    IN  IF s.SXX <= 0 THEN [raised |-> TRUE, sums |-> s, sigma |-> 0]
        ELSE [raised |-> FALSE, sums |-> s,
              sigma |-> ISqrt((10000 * (s.SYY * s.SXX - s.SXY * s.SXY))
                              \div (s.n * s.SXX * dof))]

\* a + b * x0 for the fit, in hundredths of a point, x0 in Units
Predict(fit, x0) ==
    LET s == fit.sums
    IN  FloorDiv((s.Sy * s.SXX + s.SXY * (s.n * x0 - s.Sx)) * (Unit * 100), s.n * s.SXX)

\* z * _prediction_se(eta, x0, sigma) with z = 1.96, in hundredths of a point
ZPredictionSE(fit, x0) ==
    LET s == fit.sums
        dev == s.n * x0 - s.Sx
        root == ISqrt((1000000 * (s.SXX + dev * dev)) \div (s.n * s.SXX))
    IN  ((((fit.sigma * root) \div 100) * 196) * Unit) \div 1000

SEMResult(lower, upper, method_used) ==
    [lower |-> lower, upper |-> upper, method_used |-> method_used]

\* the band without _clamp
ConstantBandAround_NoClamp(y, method_used) ==
    SEMResult(y * 100 - 500, y * 100 + 500, method_used)

\* the +/-5 band around a composite: round(_clamp(y -/+ 5.0, 0.0, 100.0), 2)
ConstantBandAround(y, method_used) ==
    SEMResult(clamp(y * 100 - 500, 0, 10000), clamp(y * 100 + 500, 0, 10000), method_used)

\* the "try" of compute_sem_confidence_intervals on rows whose last one is the
\* company being scored: the result of that row, or the exception caught
\* (line 180) and the bootstrap taken
SEMTierFailed_Uncaught(fit) == IF fit.raised THEN "raised" ELSE "done"

SEMTierFailed(fit) == IF fit.raised THEN "bootstrap" ELSE "done"

SimplifiedSEMResult(fit, x0) ==
    LET y_hat == Predict(fit, x0)
        zse == ZPredictionSE(fit, x0)
    IN  SEMResult(clamp(y_hat - zse, 0, 10000), clamp(y_hat + zse, 0, 10000),
                  "sem_simplified")

\* np.percentile(arr, q) by linear interpolation, arr sorted, q in tenths of
\* a percent
Percentile(arr, q) ==
    LET pos == q * (Len(arr) - 1)
        i == pos \div 1000
        f == pos % 1000
    IN  IF f = 0 THEN arr[i + 1]
        ELSE arr[i + 1] + FloorDiv(f * (arr[i + 2] - arr[i + 1]), 1000)

\* a value put in its place in a sorted list
RECURSIVE InsertSorted(_, _)
InsertSorted(arr, v) ==
    IF arr = <<>> THEN <<v>>
    ELSE IF v <= Head(arr) THEN <<v>> \o arr
    ELSE <<Head(arr)>> \o InsertSorted(Tail(arr), v)

\* the end of _bootstrap_ci for the row being scored: the last resort when
\* no refit succeeded, else the percentile bounds
BootstrapResult(arr, fits, y) ==
    IF fits = 0 \/ arr = <<>>
    THEN ConstantBandAround(y, "bootstrap")
    ELSE SEMResult(clamp(Percentile(arr, 25), 0, 10000),
                   clamp(Percentile(arr, 975), 0, 10000), "bootstrap")

\* the non-decreasing lists of k numbers of lo..hi
RECURSIVE NonDecreasing(_, _, _)
NonDecreasing(k, lo, hi) ==
    IF k = 0 THEN {<<>>}
    ELSE UNION { { <<i>> \o t : t \in NonDecreasing(k - 1, i, hi) } : i \in lo..hi }

MaxHist == 5
bootstrap_samples == 2

\* the scores that other companies can have on record, by level
HistRows ==
    << [x |-> 20, y |-> 20], [x |-> 60, y |-> 40], [x |-> 80, y |-> 80] >>

\* the training rows: any number up to MaxHist of them, listed by level (the
\* fits do not depend on the order of the rows)
TrainingRows ==
    UNION { { [i \in 1..k |-> HistRows[idx[i]]] : idx \in NonDecreasing(k, 1, Len(HistRows)) } :
            k \in 0..MaxHist }

SemIdle ==
    /\ sem_pc = "idle"
    /\ hist_rows = <<>>
    /\ current_row = [x |-> 0, y |-> 0]
    /\ fit_rows = <<>>
    /\ boot_iter = 0
    /\ preds = <<>>
    /\ sigmas = 0
    /\ tiers_tried = <<>>
    /\ sem_result = SEMResult(0, 0, "none")

\* compute_sem_confidence, lines 331-336: current_vec, X_hist and y_hist are
\* fetched, composite_score is the argument
FetchTrainingRows ==
    /\ sem_pc = "idle"
    /\ \E rows \in TrainingRows, x \in {20, 80}, composite \in {0, 60, 100} :
          /\ hist_rows' = rows
          /\ current_row' = [x |-> x, y |-> composite]
    /\ sem_pc' = "fetched"
    /\ UNCHANGED <<fit_rows, boot_iter, preds, sigmas, tiers_tried, sem_result>>
    /\ UNCHANGED not_sem

\* lines 338-348: no historical row, the constant band
ConstantBand ==
    /\ sem_pc = "fetched"
    /\ hist_rows = <<>>
    /\ sem_result' = ConstantBandAround(current_row.y, "fallback_constant_band")
    /\ tiers_tried' = Append(tiers_tried, "fallback_constant_band")
    /\ sem_pc' = "done"
    /\ UNCHANGED <<hist_rows, current_row, fit_rows, boot_iter, preds, sigmas>>
    /\ UNCHANGED not_sem

\* lines 350-357 and 139-142: the current row is stacked under the
\* historical ones, and n = X.shape[0] chooses the tier
ComputeIntervals ==
    /\ sem_pc = "fetched"
    /\ hist_rows # <<>>
    /\ fit_rows' = Append(hist_rows, current_row)
    /\ LET n == Len(fit_rows')
       IN  IF n < 5
           THEN /\ sem_pc' = "bootstrap"
                /\ tiers_tried' = Append(tiers_tried, "bootstrap")
           ELSE /\ sem_pc' = "sem"
                /\ tiers_tried' = Append(tiers_tried, "sem_simplified")
    /\ UNCHANGED <<hist_rows, current_row, boot_iter, preds, sigmas, sem_result>>
    /\ UNCHANGED not_sem

\* lines 145-182: the simplified SEM on all the rows, the result of the last
\* row read back (line 358)
SimplifiedSEM ==
    /\ sem_pc = "sem"
    /\ LET rows == fit_rows
           fit == _ols_fit(rows)
       IN  /\ sem_pc' = SEMTierFailed(fit)
           /\ IF fit.raised
                THEN /\ tiers_tried' = Append(tiers_tried, "bootstrap")
                     /\ UNCHANGED sem_result
                ELSE /\ sem_result' = SimplifiedSEMResult(fit, _compute_eta(rows)[Len(rows)])
                     /\ UNCHANGED tiers_tried
    /\ UNCHANGED <<hist_rows, current_row, fit_rows, boot_iter, preds, sigmas>>
    /\ UNCHANGED not_sem

\* lines 204-221: one resample with replacement (whatever rng.randrange
\* draws, listed in order since a fit does not depend on the order of its
\* rows) and its refit, the prediction for the row being scored kept
BootstrapIteration ==
    /\ sem_pc = "bootstrap"
    /\ boot_iter < bootstrap_samples
    /\ LET rows == fit_rows
           n == Len(rows)
       IN  \E idx \in NonDecreasing(n, 1, n) :
              LET fit == _ols_fit([i \in 1..n |-> rows[idx[i]]])
              IN  IF fit.raised
                  THEN UNCHANGED <<preds, sigmas>>
                  ELSE /\ preds' = InsertSorted(preds, Predict(fit, _compute_eta(rows)[n]))
                       /\ sigmas' = sigmas + 1
    /\ boot_iter' = boot_iter + 1
    /\ UNCHANGED <<sem_pc, hist_rows, current_row, fit_rows, tiers_tried, sem_result>>
    /\ UNCHANGED not_sem

\* lines 223-261: after the last resample, the last resort or the percentiles
BootstrapFinish ==
    /\ sem_pc = "bootstrap"
    /\ boot_iter >= bootstrap_samples
    /\ sem_result' = BootstrapResult(preds, sigmas, current_row.y)
    /\ tiers_tried' = IF sigmas = 0 \/ preds = <<>>
                      THEN Append(tiers_tried, "constant_band") ELSE tiers_tried
    /\ sem_pc' = "done"
    /\ UNCHANGED <<hist_rows, current_row, fit_rows, boot_iter, preds, sigmas>>
    /\ UNCHANGED not_sem

SemNext ==
    \/ FetchTrainingRows
    \/ ConstantBand
    \/ ComputeIntervals
    \/ SimplifiedSEM
    \/ BootstrapIteration
    \/ BootstrapFinish

(***************************************************************************)
(* Batch drivers and persistence: scripts/run_scoring_engine.py (main,     *)
(* score_one_company, the upserts and audit_log) and                       *)
(* app/services/scoring_service.py (compute_for_companies).                *)
(*                                                                         *)
(* A table is the list of its rows in the order they were inserted.  The   *)
(* connection autocommits (snowflake.connector.connect is called without   *)
(* autocommit=False), so a statement's rows are in the table as soon as    *)
(* it has run.  Version strings are sequences of characters.  A company's  *)
(* assessment carries the company's id.  The statements of the driver      *)
(* itself are taken to succeed; what can raise is score_one_company.       *)
(***************************************************************************)
\* the stages of score_one_company that write an audit record, in order
AuditSteps ==
    <<"dimension_scoring", "vr_model", "hr_position", "synergy", "sem", "final_write">>

\* s LIKE prefix || '%'
StartsWith(s, prefix) ==
    Len(prefix) <= Len(s) /\ SubSeq(s, 1, Len(prefix)) = prefix

\* insert_scoring_run: a new row with status running
insert_scoring_run(runs, run, model_version) ==
    Append(runs, [id |-> run, model_version |-> model_version, status |-> "running"])

\* an UPDATE without its WHERE clause
update_scoring_run_status_AllRows(runs, run, status) ==
    [i \in 1..Len(runs) |-> [runs[i] EXCEPT !.status = status]]

\* update_scoring_run_status: UPDATE scoring_runs SET status WHERE id
update_scoring_run_status(runs, run, status) ==
    [i \in 1..Len(runs) |->
        IF runs[i].id = run THEN [runs[i] EXCEPT !.status = status] ELSE runs[i]]

\* a record that replaces the last one of its run and company
audit_log_Overwrite(log, run, company_id, step) ==
    IF \E i \in 1..Len(log) : log[i].scoring_run_id = run /\ log[i].company_id = company_id
    THEN [i \in 1..Len(log) |->
            IF log[i].scoring_run_id = run /\ log[i].company_id = company_id
            THEN [log[i] EXCEPT !.step_name = step] ELSE log[i]]
    ELSE Append(log, [scoring_run_id |-> run, company_id |-> company_id, step_name |-> step])

\* audit_log: one INSERT into scoring_audit_log
audit_log(log, run, company_id, step) ==
    Append(log, [scoring_run_id |-> run, company_id |-> company_id, step_name |-> step])

OrgAirRow(company_id, run, composite_score, method_used) ==
    [company_id |-> company_id, scoring_run_id |-> run,
     composite_score |-> composite_score, method_used |-> method_used]

\* a MERGE that inserts without looking for a match
upsert_org_air_score_InsertOnly(table, row) == Append(table, row)

\* upsert_org_air_score: MERGE on (company_id, scoring_run_id), every matched
\* row updated, else one row inserted
upsert_org_air_score(table, row) ==
    IF \E i \in 1..Len(table) :
            /\ table[i].company_id = row.company_id
            /\ table[i].scoring_run_id = row.scoring_run_id
    THEN [i \in 1..Len(table) |->
            IF /\ table[i].company_id = row.company_id
               /\ table[i].scoring_run_id = row.scoring_run_id
            THEN row ELSE table[i]]
    ELSE Append(table, row)

\* one MERGE of upsert_dimension_scores, on (assessment_id, dimension)
MergeDimensionScore(table, assessment_id, r) ==
    LET row == [assessment_id |-> assessment_id, dimension |-> r.dimension,
                score |-> r.score]
    IN  IF \E i \in 1..Len(table) :
                table[i].assessment_id = assessment_id /\ table[i].dimension = r.dimension
        THEN [i \in 1..Len(table) |->
                IF table[i].assessment_id = assessment_id /\ table[i].dimension = r.dimension
                THEN row ELSE table[i]]
        ELSE Append(table, row)

\* upsert_dimension_scores: one MERGE for each result, in order
RECURSIVE upsert_dimension_scores(_, _, _)
upsert_dimension_scores(table, assessment_id, rs) ==
    IF rs = <<>> THEN table
    ELSE upsert_dimension_scores(MergeDimensionScore(table, assessment_id, Head(rs)),
                                 assessment_id, Tail(rs))

\* the model_version of the run of a row (the JOIN on scoring_runs); <<>>
\* stands for a row whose run is not in the table, which the JOIN drops
RunModelVersion(runs, run) ==
    IF \E i \in 1..Len(runs) : runs[i].id = run
    THEN (CHOOSE r \in Range(runs) : r.id = run).model_version
    ELSE <<>>

fetch_limit == 50

\* the WHERE clause of _fetch_training_rows for a row o of org_air_scores:
\* its run is in scoring_runs (the JOIN), the run's model_version LIKE
\* version%, and the company is another one
TrainingRowSelected(o, runs, company_id, version) ==
    /\ \E i \in 1..Len(runs) : runs[i].id = o.scoring_run_id
    /\ StartsWith(RunModelVersion(runs, o.scoring_run_id), version)
    /\ o.company_id # company_id

RECURSIVE SelectTrainingRows(_, _, _, _)
SelectTrainingRows(scores, runs, company_id, version) ==
    IF scores = <<>> THEN <<>>
    ELSE (IF TrainingRowSelected(Head(scores), runs, company_id, version)
          THEN <<Head(scores)>> ELSE <<>>)
         \o SelectTrainingRows(Tail(scores), runs, company_id, version)

\* _fetch_training_rows: the rows selected, at most limit of them
_fetch_training_rows(scores, runs, company_id, version) ==
    LET rows == SelectTrainingRows(scores, runs, company_id, version)
    IN  SubSeq(rows, 1, Min(Len(rows), fetch_limit))

\* method_used of compute_sem_confidence by the rows fetched: the constant
\* band without any (line 338), else what compute_sem_confidence_intervals
\* returns
SemMethodFor(rows) ==
    IF rows = <<>> THEN "fallback_constant_band" ELSE "sem_or_bootstrap"

V1_0 == <<"v", "1", ".", "0">>
V1_0_1 == <<"v", "1", ".", "0", ".", "1">>
CS3_SCORING_V2 == <<"c", "s", "3", "-", "s", "c", "o", "r", "i", "n", "g", "-", "v", "2">>

Versions == {V1_0}
ModelVersions == {V1_0, V1_0_1, CS3_SCORING_V2}
MaxCompanies == 2
MaxPrior == 5
ScoredCompanies == {"c1", "c2"}
OtherCompanies == <<"h1", "h2", "h3", "h4", "h5", "h6">>
CompositeScores == {40, 60}

\* the results that the driver's dimension pipeline hands to the upsert
DriverDimResults ==
    <<[dimension |-> "data_infrastructure", score |-> 1000],
      [dimension |-> "ai_governance", score |-> 1000]>>

\* what an earlier run left in the tables: run 1 of some model version with
\* k scores of other companies, and possibly one of company c1
PriorRuns(mv) == <<[id |-> 1, model_version |-> mv, status |-> "success"]>>

PriorScores(k, own) ==
    [i \in 1..k |-> OrgAirRow(OtherCompanies[i], 1, 60, "fallback_constant_band")]
    \o (IF own THEN <<OrgAirRow("c1", 1, 40, "fallback_constant_band")>> ELSE <<>>)

DrvIdle ==
    /\ drv_pc = "idle"
    /\ drv_args = [driver |-> "none", version |-> <<>>, model_version |-> <<>>,
                   company_ids |-> <<>>]
    /\ run_id = 0
    /\ run_idx = 0
    /\ stage = 0
    /\ scoring_runs = <<>>
    /\ org_air_scores = <<>>
    /\ dimension_scores = <<>>
    /\ scoring_audit_log = <<>>
    /\ sem_call = [company_id |-> "none", rows |-> <<>>, method_used |-> "none"]
    /\ upsert_calls = <<>>

\* main (lines 579-599) or compute_for_companies (11-23) is called on a
\* database that an earlier run has written; main exits when no company is
\* selected
DriverStart ==
    /\ drv_pc = "idle"
    /\ \E driver \in {"main", "compute_for_companies"}, v \in Versions,
          mv \in ModelVersions, ids \in SeqsUpTo(ScoredCompanies, MaxCompanies),
          prior_mv \in ModelVersions, k \in {0, 1, MaxPrior}, own \in BOOLEAN :
          /\ drv_args' = [driver |-> driver, version |-> v, model_version |-> mv,
                          company_ids |-> ids]
          /\ scoring_runs' = PriorRuns(prior_mv)
          /\ org_air_scores' = PriorScores(k, own)
          /\ drv_pc' = IF driver = "main" /\ ids = <<>> THEN "raised" ELSE "insert"
    /\ UNCHANGED <<run_id, run_idx, stage, dimension_scores, scoring_audit_log, sem_call>>
    /\ UNCHANGED not_drv

\* run_id = insert_scoring_run(...), the first statement of the try
InsertScoringRun ==
    /\ drv_pc = "insert"
    /\ run_id' = 2
    /\ scoring_runs' = insert_scoring_run(scoring_runs, 2, drv_args.model_version)
    /\ run_idx' = 1
    /\ stage' = 1
    /\ drv_pc' = "loop"
    /\ UNCHANGED <<drv_args, org_air_scores, dimension_scores, scoring_audit_log, sem_call>>
    /\ UNCHANGED not_drv

InLoop == drv_pc = "loop" /\ run_idx <= Len(drv_args.company_ids)

\* score_one_company lines 289-323: the dimension scores are upserted and
\* the dimension_scoring record written
ScoreDimensions ==
    /\ InLoop
    /\ stage = 1
    /\ LET cid == drv_args.company_ids[run_idx]
       IN  /\ dimension_scores' =
                 upsert_dimension_scores(dimension_scores, cid, DriverDimResults)
           /\ scoring_audit_log' = audit_log(scoring_audit_log, run_id, cid, AuditSteps[1])
    /\ stage' = 2
    /\ UNCHANGED <<drv_pc, drv_args, run_id, run_idx, scoring_runs, org_air_scores, sem_call>>
    /\ UNCHANGED not_drv

\* lines 326-442: the vr_model, hr_position and synergy stages, each ending
\* with its audit record
AuditStage ==
    /\ InLoop
    /\ stage \in 2..4
    /\ scoring_audit_log' = audit_log(scoring_audit_log, run_id,
                                      drv_args.company_ids[run_idx], AuditSteps[stage])
    /\ stage' = stage + 1
    /\ UNCHANGED <<drv_pc, drv_args, run_id, run_idx, scoring_runs, org_air_scores,
                   dimension_scores, sem_call>>
    /\ UNCHANGED not_drv

\* lines 452-466: compute_sem_confidence(..., version=version) reads its
\* training rows, and the sem record is written
ComputeSemConfidence ==
    /\ InLoop
    /\ stage = 5
    /\ LET cid == drv_args.company_ids[run_idx]
           rows == _fetch_training_rows(org_air_scores, scoring_runs, cid, drv_args.version)
       IN  /\ sem_call' = [company_id |-> cid, rows |-> rows,
                           method_used |-> SemMethodFor(rows)]
           /\ scoring_audit_log' = audit_log(scoring_audit_log, run_id, cid, AuditSteps[5])
    /\ stage' = 6
    /\ UNCHANGED <<drv_pc, drv_args, run_id, run_idx, scoring_runs, org_air_scores,
                   dimension_scores>>
    /\ UNCHANGED not_drv

\* lines 533-546: the score is upserted for (company_id, run_id)
WriteOrgAirScore ==
    /\ InLoop
    /\ stage = 6
    /\ \E composite \in CompositeScores :
          org_air_scores' = upsert_org_air_score(org_air_scores,
              OrgAirRow(drv_args.company_ids[run_idx], run_id, composite,
                        sem_call.method_used))
    /\ stage' = 7
    /\ UNCHANGED <<drv_pc, drv_args, run_id, run_idx, scoring_runs, dimension_scores,
                   scoring_audit_log, sem_call>>
    /\ UNCHANGED not_drv

\* lines 547-554: the final_write record; score_one_company returns and the
\* loop goes to the next company
FinalWrite ==
    /\ InLoop
    /\ stage = 7
    /\ scoring_audit_log' = audit_log(scoring_audit_log, run_id,
                                      drv_args.company_ids[run_idx], AuditSteps[6])
    /\ run_idx' = run_idx + 1
    /\ stage' = 1
    /\ UNCHANGED <<drv_pc, drv_args, run_id, scoring_runs, org_air_scores,
                   dimension_scores, sem_call>>
    /\ UNCHANGED not_drv

\* an exception leaves score_one_company, at any of its stages: nothing in
\* the loop of main (610-611) or compute_for_companies (33-39) catches it
ScoreOneCompanyRaises ==
    /\ InLoop
    /\ drv_pc' = "except"
    /\ UNCHANGED <<drv_args, run_id, run_idx, stage, scoring_runs, org_air_scores,
                   dimension_scores, scoring_audit_log, sem_call>>
    /\ UNCHANGED not_drv

\* after the loop: update_scoring_run_status(cur, run_id, "success"), commit,
\* return
FinishRun ==
    /\ drv_pc = "loop"
    /\ run_idx > Len(drv_args.company_ids)
    /\ scoring_runs' = update_scoring_run_status(scoring_runs, run_id, "success")
    /\ drv_pc' = "returned"
    /\ UNCHANGED <<drv_args, run_id, run_idx, stage, org_air_scores, dimension_scores,
                   scoring_audit_log, sem_call>>
    /\ UNCHANGED not_drv

\* except Exception: the run is marked failed when it has an id, and the
\* exception is raised again
HandleException ==
    /\ drv_pc = "except"
    /\ scoring_runs' = IF run_id # 0
                       THEN update_scoring_run_status(scoring_runs, run_id, "failed")
                       ELSE scoring_runs
    /\ drv_pc' = "raised"
    /\ UNCHANGED <<drv_args, run_id, run_idx, stage, org_air_scores, dimension_scores,
                   scoring_audit_log, sem_call>>
    /\ UNCHANGED not_drv

DrvNext ==
    \/ DriverStart
    \/ InsertScoringRun
    \/ ScoreDimensions
    \/ AuditStage
    \/ ComputeSemConfidence
    \/ WriteOrgAirScore
    \/ FinalWrite
    \/ ScoreOneCompanyRaises
    \/ FinishRun
    \/ HandleException

(***************************************************************************)
(* The upserts called on their own: upsert_org_air_score and               *)
(* upsert_dimension_scores with any arguments, one call after another      *)
(***************************************************************************)
MaxUpserts == 3

\* the arguments of a call: the function, and the row or the results given
UpsertCall(fn, company_id, run, composite_score, assessment_id, rs) ==
    [fn |-> fn, company_id |-> company_id, scoring_run_id |-> run,
     composite_score |-> composite_score, assessment_id |-> assessment_id, results |-> rs]

UpsertKeys == {<<"c1", 1>>, <<"c1", 2>>, <<"c2", 2>>}

\* results lists: one dimension, both, and the same dimension twice
UpsertDimResults ==
    { <<[dimension |-> "data_infrastructure", score |-> 1000]>>,
      <<[dimension |-> "data_infrastructure", score |-> 5000]>>,
      <<[dimension |-> "data_infrastructure", score |-> 1000],
        [dimension |-> "ai_governance", score |-> 1000]>>,
      <<[dimension |-> "ai_governance", score |-> 1000],
        [dimension |-> "ai_governance", score |-> 5000]>> }

UpsertOrgAirScoreCall ==
    /\ drv_pc = "idle"
    /\ Len(upsert_calls) < MaxUpserts
    /\ \E key \in UpsertKeys, composite \in CompositeScores :
          /\ org_air_scores' = upsert_org_air_score(org_air_scores,
                OrgAirRow(key[1], key[2], composite, "fallback_constant_band"))
          /\ upsert_calls' = Append(upsert_calls,
                UpsertCall("upsert_org_air_score", key[1], key[2], composite, "none", <<>>))
    /\ UNCHANGED <<drv_pc, drv_args, run_id, run_idx, stage, scoring_runs,
                   dimension_scores, scoring_audit_log, sem_call>>
    /\ UNCHANGED not_ups

UpsertDimensionScoresCall ==
    /\ drv_pc = "idle"
    /\ Len(upsert_calls) < MaxUpserts
    /\ \E assessment_id \in ScoredCompanies, rs \in UpsertDimResults :
          /\ dimension_scores' = upsert_dimension_scores(dimension_scores, assessment_id, rs)
          /\ upsert_calls' = Append(upsert_calls,
                UpsertCall("upsert_dimension_scores", "none", 0, 0, assessment_id, rs))
    /\ UNCHANGED <<drv_pc, drv_args, run_id, run_idx, stage, scoring_runs,
                   org_air_scores, scoring_audit_log, sem_call>>
    /\ UNCHANGED not_ups

UpsertNext ==
    \/ UpsertOrgAirScoreCall
    \/ UpsertDimensionScoresCall

(***************************************************************************)
(* HR factor: hr_baselines.py.  The factor is an exact fraction [n, d] with *)
(* d > 0; the portfolio average is counted in hundredths of a job signal.  *)
(***************************************************************************)
HRResult(hr_factor, method) == [hr_factor |-> hr_factor, method |-> method]

\* baseline / 75.0 clamped to [0.7, 1.3], as a fraction
baseline_norm(baseline) ==
    IF baseline * 10 < 7 * 75 THEN [n |-> 7, d |-> 10]
    ELSE IF baseline * 10 > 13 * 75 THEN [n |-> 13, d |-> 10]
    ELSE [n |-> baseline, d |-> 75]

\* raw_factor = 1.0 + 0.5 * (intensity - 1.0) / baseline_norm, with
\* intensity = company_jobs / portfolio_avg
raw_factor(company_jobs, portfolio_avg, baseline) ==
    LET bn == baseline_norm(baseline)
    IN  [n |-> 2 * bn.n * portfolio_avg + (company_jobs * 100 - portfolio_avg) * bn.d,
         d |-> 2 * bn.n * portfolio_avg]

\* clamp(raw_factor, 0.0, 2.0) on a fraction with a positive denominator
ClampFactor(f) ==
    IF f.n < 0 THEN [n |-> 0, d |-> 1]
    ELSE IF f.n > 2 * f.d THEN [n |-> 2, d |-> 1]
    ELSE f

\* compute_hr_factor without the final clamp
compute_hr_factor_NoClamp(company_jobs, portfolio_avg, baseline, min_jobs_for_non_neutral) ==
    IF company_jobs < min_jobs_for_non_neutral THEN HRResult([n |-> 1, d |-> 1], "neutral")
    ELSE IF portfolio_avg <= 0 THEN HRResult([n |-> 1, d |-> 1], "neutral")
    ELSE HRResult(raw_factor(company_jobs, portfolio_avg, baseline), "jobs_proxy")

\* compute_hr_factor, on what its three queries returned
compute_hr_factor(company_jobs, portfolio_avg, baseline, min_jobs_for_non_neutral) ==
    IF company_jobs < min_jobs_for_non_neutral THEN HRResult([n |-> 1, d |-> 1], "neutral")
    ELSE IF portfolio_avg <= 0 THEN HRResult([n |-> 1, d |-> 1], "neutral")
    ELSE HRResult(ClampFactor(raw_factor(company_jobs, portfolio_avg, baseline)),
                  "jobs_proxy")

\* the adjustment applied to every dimension
apply_hr_adjustment_to_talent_AllDimensions(dimension, raw_score, hr_factor) ==
    clamp(raw_score * hr_factor, 0, 10000)

\* apply_hr_adjustment_to_talent: raw_score in points, hr_factor in
\* hundredths, the result in hundredths of a point
apply_hr_adjustment_to_talent(dimension, raw_score, hr_factor) ==
    IF dimension # "talent_skills" THEN raw_score * 100
    ELSE clamp(raw_score * hr_factor, 0, 10000)

MaxJobSignals == 6
HRRawScores == {-10, 0, 40, 90, 150}
HRFactors == {-50, 0, 50, 100, 150, 200, 300}
PortfolioAverages == {0, 50, 100, 300, 1200}
HRBaselines == {0, 50, 75, 90, 120}
MinJobsForNonNeutral == {0, 3}

HRIdle ==
    /\ hr_pc = "idle"
    /\ hr_call = [company_jobs |-> 0, portfolio_avg |-> 0, baseline |-> 0,
                  min_jobs_for_non_neutral |-> 0]
    /\ hr_result = HRResult([n |-> 1, d |-> 1], "none")

\* compute_hr_factor(cur, company_id=..., sector_name=..., ...)
ComputeHRFactor ==
    /\ hr_pc = "idle"
    /\ \E jobs \in 0..MaxJobSignals, avg \in PortfolioAverages, baseline \in HRBaselines,
          min_jobs \in MinJobsForNonNeutral :
          /\ hr_call' = [company_jobs |-> jobs, portfolio_avg |-> avg,
                         baseline |-> baseline, min_jobs_for_non_neutral |-> min_jobs]
          /\ hr_result' = compute_hr_factor(jobs, avg, baseline, min_jobs)
    /\ hr_pc' = "done"
    /\ UNCHANGED not_hr

\* apply_hr_adjustment_to_talent(dimension=..., raw_score=..., hr_factor=...)
ApplyHrAdjustmentToTalent ==
    /\ hr_pc = "idle"
    /\ \E dimension \in Dims, raw_score \in HRRawScores, hr_factor \in HRFactors :
          /\ hr_call' = [dimension |-> dimension, raw_score |-> raw_score,
                         hr_factor |-> hr_factor]
          /\ hr_result' = apply_hr_adjustment_to_talent(dimension, raw_score, hr_factor)
    /\ hr_pc' = "adjusted"
    /\ UNCHANGED not_hr

HRNext ==
    \/ ComputeHRFactor
    \/ ApplyHrAdjustmentToTalent

(***************************************************************************)
(* Dispersion penalty and portfolio priors: scoring/vr_calculator.py,      *)
(* scoring/utils.py, and the VR step of score_one_company                  *)
(* (run_scoring_engine.py) with portfolio_priors.py                        *)
(*                                                                         *)
(* Scores are given in points; means, penalties and VR values are counted  *)
(* in hundredths of a point, a coefficient of variation in hundredths, and *)
(* blend weights and factors in hundredths (cv_penalty_factor in 1/10000). *)
(* talent_risk_adjustment is imported by the script from a module that     *)
(* does not define it here, so the value it returned is an argument of the *)
(* step.                                                                   *)
(***************************************************************************)
Abs(x) == IF x < 0 THEN -x ELSE x

\* utils.weighted_mean: safe_div(sum(x * y), sum(w), 0.0), in hundredths
weighted_mean(values, weights) ==
    LET sw == SumSeq(weights)
    IN  IF sw = 0 THEN 0
        ELSE (100 * SumSeq([i \in 1..Len(values) |-> values[i] * weights[i]])) \div sw

\* utils.coefficient_of_variation: weighted_std_dev / abs(mu), 0 when mu is 0;
\* std / |mu| = sqrt(sw * sum(w x^2) - sum(w x)^2) / |sum(w x)|
coefficient_of_variation(values, weights) ==
    LET sw  == SumSeq(weights)
        swx == SumSeq([i \in 1..Len(values) |-> values[i] * weights[i]])
        sxx == SumSeq([i \in 1..Len(values) |-> values[i] * values[i] * weights[i]])
    IN  IF sw = 0 \/ swx = 0 THEN 0
        ELSE ISqrt(10000 * (sw * sxx - swx * swx)) \div Abs(swx)

\* vr_calculator.compute_vr(dimension_scores, weights, cv_penalty_strength);
\* its dimension_scores argument is named scores_by_dimension here
compute_vr(scores_by_dimension, weights, cv_penalty_strength) ==
    LET dims == [i \in 1..Len(weights) |-> weights[i].k]
        scores == [i \in 1..Len(dims) |-> DictGet(scores_by_dimension, dims[i], 50)]
        w == [i \in 1..Len(dims) |-> weights[i].v]
        base == IF SumSeq(w) > 0 THEN weighted_mean(scores, w) ELSE 5000
        cv == coefficient_of_variation(scores, [i \in 1..Len(scores) |-> 1])
        penalty == clamp(cv * cv_penalty_strength, 0, 1500)
    IN  clamp(base - penalty, 0, 10000)

\* run_scoring_engine._coefficient_of_variation(values)
_coefficient_of_variation(values) ==
    LET n  == Len(values)
        s  == SumSeq(values)
        sq == SumSeq([i \in 1..n |-> values[i] * values[i]])
    IN  IF n = 0 \/ s = 0 THEN 0
        ELSE ISqrt(10000 * (n * sq - s * s)) \div Abs(s)

\* run_scoring_engine._blend(current, target, weight)
_blend(current, target, weight) ==
    LET w == clamp(weight, 0, 100)
    IN  ((100 - w) * current + w * target) \div 100

\* str.upper()
UpperChar(c) ==
    IF c \in Range(LOWER) THEN UPPER[CHOOSE i \in 1..Len(LOWER) : LOWER[i] = c] ELSE c
Upper(s) == [i \in 1..Len(s) |-> UpperChar(s[i])]

PortfolioPrior(vr_target, pf_target, tc_target, market_cap_percentile) ==
    [vr_target |-> vr_target, pf_target |-> pf_target, tc_target |-> tc_target,
     market_cap_percentile |-> market_cap_percentile]

PORTFOLIO_PRIORS ==
    << [k |-> <<"N", "V", "D", "A">>, v |-> PortfolioPrior(95, 90, 12, 95)],
       [k |-> <<"J", "P", "M">>,      v |-> PortfolioPrior(70, 50, 18, 75)],
       [k |-> <<"W", "M", "T">>,      v |-> PortfolioPrior(55, 30, 20, 65)],
       [k |-> <<"G", "E">>,           v |-> PortfolioPrior(40, 0, 25, 50)],
       [k |-> <<"D", "G">>,           v |-> PortfolioPrior(25, -30, 30, 35)] >>

\* score_one_company from the ticker lookup to vr_adj: c.ticker is what
\* _get_company_ticker returned, c.dims what fetch_dimension_inputs returned,
\* c.talent_risk_adj what talent_risk_adjustment(tc) returned
score_one_company_vr(c) ==
    LET ticker == Upper(IF c.ticker.none THEN <<>> ELSE c.ticker.value)
        has_prior == DictHas(PORTFOLIO_PRIORS, ticker)
        prior == DictGet(PORTFOLIO_PRIORS, ticker, PortfolioPrior(0, 0, 0, 0))
        vr == compute_vr_score(c.dims, c.profile)
        vr_raw == (100 * vr.n) \div vr.d
        cv == _coefficient_of_variation([i \in 1..Len(c.dims) |-> c.dims[i].raw_score])
        cv_penalty_factor == clamp(10000 - 25 * cv, 0, 10000)
        vr_base == clamp((((vr_raw * cv_penalty_factor) \div 10000) * c.talent_risk_adj) \div 100,
                         0, 10000)
        vr_blend_weight ==
            IF ~has_prior THEN 0
            ELSE IF ticker = <<"N", "V", "D", "A">> THEN 92
            ELSE IF c.total_ai_jobs <= 2 THEN 88 ELSE 80
        vr_adj == IF has_prior
                  THEN clamp(_blend(vr_base, 100 * prior.vr_target, vr_blend_weight), 0, 10000)
                  ELSE vr_base
    IN  [vr_raw |-> vr_raw, cv |-> cv, cv_penalty_factor |-> cv_penalty_factor,
         vr_base |-> vr_base, vr_adj |-> vr_adj, vr_blend_weight |-> vr_blend_weight]

MaxPVDims == 3

PVScores == {0, 10, 100}
PVStrengths == {-2, 0, 8, 30}

\* dimension scores and weights of a compute_vr call, a score possibly missing
PVScoreDicts ==
    { [i \in 1..k |-> [k |-> DIMENSIONS[i], v |-> s[i]]] :
        k \in {0, MaxPVDims - 1}, s \in [1..(MaxPVDims - 1) -> PVScores] }
PVWeightDicts ==
    { [i \in 1..k |-> [k |-> DIMENSIONS[i], v |-> w[i]]] :
        k \in {0, MaxPVDims}, w \in [1..MaxPVDims -> {0, 1, 3}] }

\* the rows of dimension_scores of the assessment and the sector profile
PVDimInputs ==
    { [i \in 1..MaxPVDims |-> DimensionInput(DIMENSIONS[i], s[i], conf, 1)] :
        s \in [1..MaxPVDims -> PVScores], conf \in {40, 100} }
PVProfiles ==
    { [den |-> MaxPVDims, w |-> [i \in 1..MaxPVDims |-> [k |-> DIMENSIONS[i], v |-> 1]]],
      [den |-> 10, w |-> [i \in 1..MaxPVDims |->
                            [k |-> DIMENSIONS[i], v |-> IF i <= 2 THEN 5 ELSE 0]]] }
\* what _get_company_ticker returns: None, or the ticker of the company
Tickers ==
    { [none |-> TRUE, value |-> <<>>] }
    \cup { Some(t) : t \in { <<"n", "v", "d", "a">>, <<"D", "G">>, <<"X", "Y", "Z">> } }
TalentRiskAdjustments == {85, 100}

PVIdle ==
    /\ pv_pc = "idle"
    /\ pv_call = [function |-> "none"]
    /\ pv_result = [vr |-> 0]

\* compute_vr(dimension_scores, weights, cv_penalty_strength)
ComputeVR ==
    /\ pv_pc = "idle"
    /\ \E dimension_scores_arg \in PVScoreDicts, weights \in PVWeightDicts,
          cv_penalty_strength \in PVStrengths :
          /\ pv_call' = [function |-> "compute_vr", dimension_scores |-> dimension_scores_arg,
                         weights |-> weights, cv_penalty_strength |-> cv_penalty_strength]
          /\ pv_result' = [vr |-> compute_vr(dimension_scores_arg, weights, cv_penalty_strength)]
    /\ pv_pc' = "compute_vr"
    /\ UNCHANGED not_pv

\* score_one_company, lines 292-293 and 326-348
ScoreOneCompanyVR ==
    /\ pv_pc = "idle"
    /\ \E dims \in PVDimInputs, profile \in PVProfiles, ticker \in Tickers,
          total_ai_jobs \in {0, 3}, talent_risk_adj \in TalentRiskAdjustments :
          /\ pv_call' = [function |-> "score_one_company", dims |-> dims, profile |-> profile,
                         ticker |-> ticker, total_ai_jobs |-> total_ai_jobs,
                         talent_risk_adj |-> talent_risk_adj]
          /\ pv_result' = score_one_company_vr(pv_call')
    /\ pv_pc' = "score_one_company"
    /\ UNCHANGED not_pv

PVNext ==
    \/ ComputeVR
    \/ ScoreOneCompanyVR

(***************************************************************************)
(* Specifications: one for each component, the others at rest              *)
(***************************************************************************)
AllIdle ==
    /\ DimIdle /\ VRIdle /\ CompIdle /\ SynIdle /\ TalentIdle /\ SemIdle /\ DrvIdle /\ HRIdle
    /\ PVIdle

DimInit == AllIdle
DimSpec == DimInit /\ [][DimNext]_vars

VRInit == AllIdle
VRSpec == VRInit /\ [][VRNext]_vars

CompInit == AllIdle
CompSpec == CompInit /\ [][CompNext]_vars

SynInit == AllIdle
SynSpec == SynInit /\ [][SynNext]_vars

TalentInit == AllIdle
TalentSpec == TalentInit /\ [][TalentNext]_vars

SemInit == AllIdle
SemSpec == SemInit /\ [][SemNext]_vars

DrvInit == AllIdle
DrvSpec == DrvInit /\ [][DrvNext]_vars

UpsertInit == AllIdle
UpsertSpec == UpsertInit /\ [][UpsertNext]_vars

HRInit == AllIdle
HRSpec == HRInit /\ [][HRNext]_vars
PVInit == AllIdle
PVSpec == PVInit /\ [][PVNext]_vars


(***************************************************************************)
(* Claims about the dimension pipeline (specification DimSpec)             *)
(***************************************************************************)
\* exactly one entry of a list of records for each canonical dimension
OnePerDimension(dimensions) ==
    /\ Len(dimensions) = Len(DIMENSIONS)
    /\ \A d \in Dims : Cardinality({i \in 1..Len(dimensions) : dimensions[i] = d}) = 1
    /\ Range(dimensions) \subseteq Dims

\* C1: in the dimension pipeline every dimension whose feature has
\* evidence_count <= 0 is scored exactly 50 with a confidence within
\* [0.40, 0.50]; an empty evidence list yields 7 dimensions at 50.
C1_NoEvidenceScoresNeutral ==
    dp_pc = "pipeline" =>
        \A i \in 1..Len(results) :
            results[i].evidence_count <= 0 =>
                /\ results[i].score = 5000
                /\ results[i].confidence >= 400
                /\ results[i].confidence <= 500

C3_VRWithinRange ==
    vr_pc = "done" =>
        /\ vr_score.d > 0
        /\ 0 <= vr_score.n
        /\ vr_score.n <= 100 * vr_score.d

\* C3 witness: a call has returned whose quotient numerator / denom lies above
\* 100, on a raw score outside [0, 100] and a confidence above 1
C3_Witness_ClampActs ==
    /\ vr_pc = "done"
    /\ \E i \in 1..Len(dimension_inputs) :
          dimension_inputs[i].raw_score > 100 /\ dimension_inputs[i].confidence > 100
    /\ LET a == VRAccumulate(dimension_inputs, sector_weights.w, confidence_floor, 0, 0)
       IN  a.denom > 0 /\ a.numerator > 100 * a.denom

\* the reference sums of the VR: clamp(score, 0, 100) * weight * max(clamp(
\* confidence, 0, 1), 0.20) and weight * max(clamp(confidence, 0, 1), 0.20)
VRReference ==
    LET wt(i) == IF DictHas(sector_weights.w, dimension_inputs[i].dimension)
                 THEN DictGet(sector_weights.w, dimension_inputs[i].dimension, 0)
                 ELSE 0
        eff(i) == Max(Min(Max(dimension_inputs[i].confidence, 0), 100), 20)
        sc(i) == Min(Max(dimension_inputs[i].raw_score, 0), 100)
        idx == 1..Len(dimension_inputs)
    IN  [num |-> SumSeq([i \in idx |-> sc(i) * wt(i) * eff(i)]),
         den |-> SumSeq([i \in idx |-> wt(i) * eff(i)])]

\* C4 as stated: the VR equals numerator / denominator of the reference sums,
\* and is 0 when the denominator is <= 0.
C4_VREqualsReference ==
    vr_pc = "done" =>
        LET r == VRReference
        IN  IF r.den <= 0 THEN vr_score.n = 0
            ELSE vr_score.n * r.den = r.num * vr_score.d

\* C4 amended: the VR equals numerator / denominator of the reference sums
\* clamped to [0, 100], and is 0 when the denominator is <= 0; a dimension with
\* confidence 0 enters both sums with the effective confidence 0.20.
C4_VREqualsClampedReference ==
    vr_pc = "done" =>
        LET r == VRReference
        IN  IF r.den <= 0 THEN vr_score.n = 0
            ELSE IF r.num < 0 THEN vr_score.n = 0
            ELSE IF r.num > 100 * r.den THEN vr_score.n = 100 * vr_score.d
            ELSE vr_score.n * r.den = r.num * vr_score.d

\* C4 witness: two weighted dimensions with different scores, the first with
\* confidence 0, the quotient strictly between the two scores
C4_Witness_ConfidenceZero ==
    /\ vr_pc = "done"
    /\ Len(dimension_inputs) >= 2
    /\ dimension_inputs[1].confidence = 0
    /\ dimension_inputs[1].raw_score = 40
    /\ dimension_inputs[2].confidence = 60
    /\ dimension_inputs[2].raw_score = 150
    /\ DictGet(sector_weights.w, dimension_inputs[1].dimension, 0) > 0
    /\ DictGet(sector_weights.w, dimension_inputs[2].dimension, 0) > 0
    /\ vr_score.n > 40 * vr_score.d
    /\ vr_score.n < 100 * vr_score.d

\* a VR is at most another
VRLeq(a, b) == a.n * b.d <= b.n * a.d

\* C5: with the same weights and the same confidences, raising dimension
\* scores never lowers the VR that compute_vr_score returns.
C5_VRMonotone ==
    [][(vr_pc = "done" /\ vr_pc' = "done") => VRLeq(vr_score, vr_score')]_vars

(***************************************************************************)
(* Claims about the composite blender (specification CompSpec)             *)
(***************************************************************************)
\* the composite of a call by the formulas of its two modes, in 1/10000
CompositeReference ==
    LET c == comp_call
        lim(x, hi) == Min(Max(x, 0), hi)
        blend == (100 - lim(c.beta, 100))
                    * (lim(c.alpha, 100) * lim(c.vr_score, 100)
                       + (100 - lim(c.alpha, 100)) * lim(c.hr_score.value, 100))
                 + lim(c.beta, 100) * lim(c.synergy_score.value, 100) * 100
        bonus == IF c.synergy_bonus.none THEN 0 ELSE c.synergy_bonus.value
        factor == IF c.penalty_factor.none THEN 100 ELSE lim(c.penalty_factor.value, 100)
        legacy == (lim(c.vr_score, 100) + bonus) * factor * 100
    IN  IF ~c.hr_score.none /\ ~c.synergy_score.none THEN blend ELSE legacy

\* C6: compute_composite takes the additive blend exactly when both hr_score
\* and synergy_score are supplied and the legacy (VR + synergy_bonus) *
\* penalty_factor otherwise (a missing bonus 0, a missing factor 1), on
\* clamped VR, HR, Synergy, alpha, beta and penalty_factor; the returned
\* composite_score is that value clamped to [0, 100], rounded to 2 places.
C6_CompositeFormula ==
    comp_pc = "done" =>
        /\ comp_result.composite_score
              = RoundHalfEven(Min(Max(CompositeReference, 0), 100 * 10000), 100)
        /\ comp_result.composite_score >= 0
        /\ comp_result.composite_score <= 100 * 100

\* C6 witness: a call with hr_score but no synergy_score has returned the
\* legacy value, here (37 + 10) * 0.85 = 39.95
C6_Witness_LegacyWithHr ==
    /\ comp_pc = "done"
    /\ ~comp_call.hr_score.none
    /\ comp_call.synergy_score.none
    /\ comp_call.vr_score = 37
    /\ comp_call.synergy_bonus = Some(10)
    /\ comp_call.penalty_factor = Some(85)
    /\ comp_result.composite_score = 3995

(***************************************************************************)
(* Claims about the rule-based synergy (specification SynSpec)             *)
(***************************************************************************)
\* a rule is activated by the stored scores: a positive rule iff both scores
\* are >= threshold, a negative rule iff dim_a >= threshold and dim_b <
\* threshold, a rule of any other type never (a missing score counts as 0)
SynergyActivates(r) ==
    LET score(d) == IF DictHas(scores_by_dim, d) THEN DictGet(scores_by_dim, d, 0) ELSE 0
    IN  \/ r.synergy_type = "positive"
           /\ score(r.dim_a) >= r.threshold /\ score(r.dim_b) >= r.threshold
        \/ r.synergy_type = "negative"
           /\ score(r.dim_a) >= r.threshold /\ score(r.dim_b) < r.threshold

\* C7: compute_synergy returns the sum of the magnitudes of the activated
\* rules clamped to [-cap_abs, +cap_abs], each hit telling whether its rule
\* was activated; the bonus is within the cap however many rules activate.
C7_SynergyCappedSum ==
    syn_pc = "done" =>
        LET n == Len(synergy_rules)
            total == SumSeq([i \in 1..n |->
                        IF SynergyActivates(synergy_rules[i])
                        THEN synergy_rules[i].magnitude ELSE 0])
        IN  /\ syn_result.synergy_bonus = Max(-syn_result.cap, Min(syn_result.cap, total))
            /\ syn_result.synergy_bonus >= -syn_result.cap
            /\ syn_result.synergy_bonus <= syn_result.cap
            /\ Len(syn_result.hits) = n
            /\ \A i \in 1..n :
                  syn_result.hits[i].activated = SynergyActivates(synergy_rules[i])

\* C7 witness: two positive rules worth +10 each are both activated under the
\* cap 15 and the bonus is exactly 15
C7_Witness_CapReached ==
    /\ syn_pc = "done"
    /\ syn_result.cap = 15
    /\ Len(synergy_rules) = 2
    /\ \A i \in 1..2 :
          /\ synergy_rules[i].synergy_type = "positive"
          /\ synergy_rules[i].magnitude = 10
          /\ syn_result.hits[i].activated
    /\ syn_result.synergy_bonus = 15

(***************************************************************************)
(* Claims about the talent-concentration penalty (specification           *)
(* TalentSpec)                                                             *)
(***************************************************************************)
\* the size of the sample of the call
TalentSample ==
    IF tp_pc = "engine" THEN Len(job_functions)
    ELSE SumSeq([i \in 1..Len(function_counts) |-> function_counts[i].v])

\* the sum of the squared counts by function: for a list of jobs, the number
\* of pairs of jobs of the same function
TalentSquares ==
    IF tp_pc = "engine"
    THEN Cardinality({p \in (1..Len(job_functions)) \X (1..Len(job_functions)) :
                         job_functions[p[1]] = job_functions[p[2]]})
    ELSE SumSeq([i \in 1..Len(function_counts) |->
                    function_counts[i].v * function_counts[i].v])

\* HHI >= threshold for HHI = sum of squared shares (0 on an empty sample)
TalentHHIAtLeast(threshold) ==
    IF TalentSample = 0 THEN 0 >= threshold
    ELSE 100 * TalentSquares >= threshold * TalentSample * TalentSample

\* the factor selected from the configuration, each configured factor passed
\* through adjust
TalentSelected(adjust(_)) ==
    IF TalentSample < tp_cfg.min_sample_size THEN 100
    ELSE IF TalentHHIAtLeast(tp_cfg.hhi_threshold_severe) THEN adjust(tp_cfg.penalty_factor_severe)
    ELSE IF TalentHHIAtLeast(tp_cfg.hhi_threshold_mild) THEN adjust(tp_cfg.penalty_factor_mild)
    ELSE 100

TalentAsConfigured(x) == x
TalentClamped(x) == Min(Max(x, 0), 100)

\* C8 as stated: below the minimum sample the factor is 1.0 and
\* min_sample_met false; otherwise the factor is the configured severe factor
\* if HHI >= severe threshold, else the configured mild factor if HHI >= mild
\* threshold, else 1.0; and the factor is within [0, 1].
C8_PenaltySelection ==
    tp_pc \in {"engine", "concentration"} =>
        /\ tp_result.min_sample_met = (TalentSample >= tp_cfg.min_sample_size)
        /\ tp_result.penalty_factor = TalentSelected(TalentAsConfigured)
        /\ tp_result.penalty_factor >= 0
        /\ tp_result.penalty_factor <= 100

\* C8 amended: as C8, the selected severe or mild factor being the configured
\* one clamped to [0, 1].
C8_PenaltySelectionClamped ==
    tp_pc \in {"engine", "concentration"} =>
        /\ tp_result.min_sample_met = (TalentSample >= tp_cfg.min_sample_size)
        /\ tp_result.penalty_factor = TalentSelected(TalentClamped)
        /\ tp_result.penalty_factor >= 0
        /\ tp_result.penalty_factor <= 100

\* C8 witness: a sample of two jobs of one function (HHI 1) under a minimum of
\* three has kept the factor 1.0
C8_Witness_SmallSample ==
    /\ tp_pc = "engine"
    /\ Len(job_functions) = 2
    /\ job_functions[1] = job_functions[2]
    /\ tp_cfg.min_sample_size = 3
    /\ tp_cfg.penalty_factor_severe = 85
    /\ ~tp_result.min_sample_met
    /\ tp_result.penalty_factor = 100

(***************************************************************************)
(* Claims about the SEM confidence interval (specification SemSpec)        *)
(***************************************************************************)
\* the place of a tier in the chain SEM -> bootstrap -> constant band
SemTierRank(tier) ==
    IF tier = "sem_simplified" THEN 1 ELSE IF tier = "bootstrap" THEN 2 ELSE 3

\* every row of the call (historical and current) has the same level
SemAllLevelsEqual ==
    \A i \in 1..Len(hist_rows) : hist_rows[i].x = current_row.x

\* C9: compute_sem_confidence always terminates without raising (until it
\* has returned the guard of one of its steps holds, and it takes at most
\* bootstrap_samples resamples), with 0 <= lower <= upper <= 100 and method_used one of
\* sem_simplified, bootstrap, fallback_constant_band; the tiers are entered
\* only in the order SEM -> bootstrap -> constant band, a later one only
\* after the earlier one failed or did not apply.
C9_SemChainTerminates ==
    /\ sem_pc \in {"idle", "fetched", "sem", "bootstrap", "done"}
    /\ sem_pc # "done" =>
          \/ sem_pc = "idle"
          \/ sem_pc = "fetched" /\ (hist_rows = <<>> \/ hist_rows # <<>>)
          \/ sem_pc = "sem"
          \/ sem_pc = "bootstrap" /\ boot_iter < bootstrap_samples
          \/ sem_pc = "bootstrap" /\ boot_iter >= bootstrap_samples
    /\ boot_iter <= bootstrap_samples
    /\ sem_pc = "done" =>
          /\ 0 <= sem_result.lower
          /\ sem_result.lower <= sem_result.upper
          /\ sem_result.upper <= 10000
          /\ sem_result.method_used
                \in {"sem_simplified", "bootstrap", "fallback_constant_band"}
          /\ tiers_tried # <<>>
    /\ \A i, j \in 1..Len(tiers_tried) :
          i < j => SemTierRank(tiers_tried[i]) < SemTierRank(tiers_tried[j])
    /\ \A i \in 1..Len(tiers_tried) :
          /\ tiers_tried[i] = "bootstrap" =>
                \/ Len(hist_rows) + 1 < 5
                \/ i > 1 /\ tiers_tried[i - 1] = "sem_simplified" /\ SemAllLevelsEqual
          /\ SemTierRank(tiers_tried[i]) = 3 =>
                \/ hist_rows = <<>>
                \/ i > 1 /\ tiers_tried[i - 1] = "bootstrap" /\ sigmas = 0

\* C9 witness: a call has gone through all three tiers: the SEM fit raised,
\* every bootstrap refit raised, and the constant band was returned
C9_Witness_AllThreeTiers ==
    /\ sem_pc = "done"
    /\ tiers_tried = <<"sem_simplified", "bootstrap", "constant_band">>
    /\ boot_iter = bootstrap_samples
    /\ sem_result.lower <= sem_result.upper

\* C10: the simplified-SEM tier is used only with at least 5 historical rows
\* (the company being scored not counted), and with 1 to 4 historical rows
\* the bootstrap tier is used.
C10_SEMNeedsFiveHistorical ==
    sem_pc = "done" =>
        /\ sem_result.method_used = "sem_simplified" => Len(hist_rows) >= 5
        /\ Len(hist_rows) \in 1..4 => sem_result.method_used = "bootstrap"

\* C11: with zero historical rows compute_sem_confidence reports method_used
\* fallback_constant_band (or bootstrap) and the bounds clamp(composite - 5,
\* 0, 100) and clamp(composite + 5, 0, 100), so the composite lies inside
\* [lower, upper] and neither bound is more than 5 away from it.
C11_ZeroHistoryConstantBand ==
    (sem_pc = "done" /\ hist_rows = <<>>) =>
        LET composite == current_row.y * 100
        IN  /\ sem_result.method_used \in {"fallback_constant_band", "bootstrap"}
            /\ sem_result.lower = Max(0, Min(10000, composite - 500))
            /\ sem_result.upper = Max(0, Min(10000, composite + 500))
            /\ sem_result.lower <= composite
            /\ composite <= sem_result.upper
            /\ composite - sem_result.lower <= 500
            /\ sem_result.upper - composite <= 500

\* C11 witness: a call without history returned for a composite of 0, where
\* the lower bound is clamped
C11_Witness_ClampedBand ==
    /\ sem_pc = "done"
    /\ hist_rows = <<>>
    /\ current_row.y = 0
    /\ sem_result = SEMResult(0, 500, "fallback_constant_band")

\* the tier that produced the returned interval: the last one entered
SemProducingTier == tiers_tried[Len(tiers_tried)]

\* C12: method_used names the tier that produced the returned interval:
\* sem_simplified for the OLS interval, bootstrap for the percentile bounds,
\* fallback_constant_band whenever the bounds are the constant +/-5 band,
\* also when every bootstrap refit failed.
C12_MethodNamesTier ==
    sem_pc = "done" =>
        /\ SemProducingTier = "sem_simplified" => sem_result.method_used = "sem_simplified"
        /\ SemProducingTier = "bootstrap" => sem_result.method_used = "bootstrap"
        /\ SemProducingTier \in {"constant_band", "fallback_constant_band"} =>
              sem_result.method_used = "fallback_constant_band"

\* C13: no row of the company being scored is among the rows fitted: the
\* rows given to the fit are the historical rows of other companies only.
C13_CurrentRowNotFitted ==
    sem_pc \in {"sem", "bootstrap", "done"} /\ hist_rows # <<>> => fit_rows = hist_rows

(***************************************************************************)
(* Claims about the batch drivers (specification DrvSpec)                  *)
(***************************************************************************)
\* the rows C14 expects compute_sem_confidence to train on for a company:
\* scores of other companies whose run has the model version of this run
ExpectedTrainingRows(company_id) ==
    { o \in Range(org_air_scores) :
        /\ o.company_id # company_id
        /\ \E r \in Range(scoring_runs) :
              r.id = o.scoring_run_id /\ r.model_version = drv_args.model_version }

\* C14: the training rows selected for the SEM estimator are exactly the
\* scores of other companies written by runs whose model_version is that of
\* the run doing the scoring; so with at least 5 such rows score_one_company
\* does not get its interval from fallback_constant_band.
C14_TrainingRowsOfModelVersion ==
    (drv_pc = "loop" /\ stage = 6) =>
        /\ Range(sem_call.rows) = ExpectedTrainingRows(sem_call.company_id)
        /\ Cardinality(ExpectedTrainingRows(sem_call.company_id)) >= 5 =>
              sem_call.method_used # "fallback_constant_band"

\* the status of the run that the driver inserted ("none" before)
RunStatus ==
    IF \E r \in Range(scoring_runs) : r.id = run_id
    THEN (CHOOSE r \in Range(scoring_runs) : r.id = run_id).status
    ELSE "none"

\* score_one_company has returned for the i-th requested company
CompanyDone(i) ==
    /\ i < run_idx
    /\ \E o \in Range(org_air_scores) :
          o.company_id = drv_args.company_ids[i] /\ o.scoring_run_id = run_id

\* the run rows keep their ids, and a status only goes from running to
\* success or failed
StatusStep ==
    /\ Len(scoring_runs') >= Len(scoring_runs)
    /\ \A i \in 1..Len(scoring_runs) :
          /\ scoring_runs'[i].id = scoring_runs[i].id
          /\ scoring_runs'[i].status # scoring_runs[i].status =>
                /\ scoring_runs[i].status = "running"
                /\ scoring_runs'[i].status \in {"success", "failed"}

C16_FailureDoesNotAbortBatch ==
    (drv_pc \in {"returned", "raised"} /\ run_id # 0) =>
        \A i \in 1..Len(drv_args.company_ids) :
            (run_idx <= Len(drv_args.company_ids)
                /\ drv_args.company_ids[i] = drv_args.company_ids[run_idx])
            \/ \E o \in Range(org_air_scores) :
                  o.company_id = drv_args.company_ids[i] /\ o.scoring_run_id = run_id

\* C18: the historical rows read by the SEM estimator for one company never
\* contain a score that a sibling's scoring wrote in the same run.
C18_NoSiblingScoresAsHistory ==
    run_id # 0 => \A o \in Range(sem_call.rows) : o.scoring_run_id # run_id

\* the step names of the audit records of this run and a company, in order
RECURSIVE AuditStepsOf(_, _)
AuditStepsOf(log, company_id) ==
    IF log = <<>> THEN <<>>
    ELSE (IF Head(log).scoring_run_id = run_id /\ Head(log).company_id = company_id
          THEN <<Head(log).step_name>> ELSE <<>>) \o AuditStepsOf(Tail(log), company_id)

\* the six step names, k times over
RECURSIVE RepeatAuditSteps(_)
RepeatAuditSteps(k) == IF k = 0 THEN <<>> ELSE AuditSteps \o RepeatAuditSteps(k - 1)

\* the calls of score_one_company for a company that have returned
CompletedCalls(company_id) ==
    Cardinality({ i \in 1..Len(drv_args.company_ids) :
                    i < run_idx /\ drv_args.company_ids[i] = company_id })

\* the records that the call in progress (or the one that raised) has written
RecordsOfCallInProgress(company_id) ==
    IF /\ run_idx \in 1..Len(drv_args.company_ids)
       /\ drv_args.company_ids[run_idx] = company_id
    THEN SubSeq(AuditSteps, 1, Min(stage - 1, 5))
    ELSE <<>>

\* C19: each completed score_one_company adds to the audit log of (run_id,
\* company_id) exactly one record for each stage, in the order
\* dimension_scoring, vr_model, hr_position, synergy, sem, final_write;
\* records are only appended; final_write comes only after the upsert of
\* the company's org_air_scores row.
C19_AuditTrailOrdered ==
    /\ [](\A c \in ScoredCompanies :
            /\ AuditStepsOf(scoring_audit_log, c) =
                  RepeatAuditSteps(CompletedCalls(c)) \o RecordsOfCallInProgress(c)
            /\ (\E i \in 1..Len(scoring_audit_log) :
                    /\ scoring_audit_log[i].company_id = c
                    /\ scoring_audit_log[i].step_name = "final_write") =>
               \E o \in Range(org_air_scores) :
                    o.company_id = c /\ o.scoring_run_id = run_id)
    /\ [][/\ Len(scoring_audit_log') >= Len(scoring_audit_log)
          /\ SubSeq(scoring_audit_log', 1, Len(scoring_audit_log)) = scoring_audit_log]_vars

\* C19 witness: both companies of a batch have been scored and the run has
\* returned: twelve records
C19_Witness_TwoCompanies ==
    /\ drv_pc = "returned"
    /\ drv_args.company_ids = <<"c1", "c2">>
    /\ Len(scoring_audit_log) = 12
    /\ scoring_audit_log[6].step_name = "final_write"
    /\ scoring_audit_log[7].company_id = "c2"

(***************************************************************************)
(* Claims about the upserts (specification UpsertSpec)                     *)
(***************************************************************************)
\* the calls of upsert_org_air_score made for a key, oldest first
RECURSIVE OrgCallsFor(_, _, _)
OrgCallsFor(calls, company_id, run) ==
    IF calls = <<>> THEN <<>>
    ELSE (IF /\ Head(calls).fn = "upsert_org_air_score"
             /\ Head(calls).company_id = company_id
             /\ Head(calls).scoring_run_id = run
          THEN <<Head(calls)>> ELSE <<>>) \o OrgCallsFor(Tail(calls), company_id, run)

\* the scores given for (assessment_id, dimension) by the calls of
\* upsert_dimension_scores, oldest first, a call's results in their order
RECURSIVE DimScoresIn(_, _)
DimScoresIn(rs, dimension) ==
    IF rs = <<>> THEN <<>>
    ELSE (IF Head(rs).dimension = dimension THEN <<Head(rs).score>> ELSE <<>>)
         \o DimScoresIn(Tail(rs), dimension)

RECURSIVE DimScoresFor(_, _, _)
DimScoresFor(calls, assessment_id, dimension) ==
    IF calls = <<>> THEN <<>>
    ELSE (IF /\ Head(calls).fn = "upsert_dimension_scores"
             /\ Head(calls).assessment_id = assessment_id
          THEN DimScoresIn(Head(calls).results, dimension) ELSE <<>>)
         \o DimScoresFor(Tail(calls), assessment_id, dimension)

\* C17: after any sequence of upsert_org_air_score calls org_air_scores has
\* at most one row for each (company_id, scoring_run_id), with the values
\* of the latest call for that key, and no row for a key never written (so
\* a call leaves the other keys' rows alone and a repeated call adds no
\* row); likewise dimension_scores has at most one row for each
\* (assessment_id, dimension).
C17_UpsertIdempotent ==
    /\ \A key \in UpsertKeys :
          LET rows == { i \in 1..Len(org_air_scores) :
                          /\ org_air_scores[i].company_id = key[1]
                          /\ org_air_scores[i].scoring_run_id = key[2] }
              calls == OrgCallsFor(upsert_calls, key[1], key[2])
          IN  /\ Cardinality(rows) <= 1
              /\ (rows = {}) = (calls = <<>>)
              /\ \A i \in rows :
                    org_air_scores[i].composite_score = calls[Len(calls)].composite_score
    /\ \A i \in 1..Len(org_air_scores) :
          <<org_air_scores[i].company_id, org_air_scores[i].scoring_run_id>> \in UpsertKeys
    /\ \A a \in ScoredCompanies, dim \in {"data_infrastructure", "ai_governance"} :
          LET rows == { i \in 1..Len(dimension_scores) :
                          /\ dimension_scores[i].assessment_id = a
                          /\ dimension_scores[i].dimension = dim }
              given == DimScoresFor(upsert_calls, a, dim)
          IN  /\ Cardinality(rows) <= 1
              /\ (rows = {}) = (given = <<>>)
              /\ \A i \in rows : dimension_scores[i].score = given[Len(given)]

\* C17 witness: three calls of upsert_org_air_score, two of them for the same
\* key with different values, have left two rows
C17_Witness_Overwritten ==
    /\ Len(upsert_calls) = 3
    /\ upsert_calls[1].fn = "upsert_org_air_score"
    /\ upsert_calls[2].fn = "upsert_org_air_score"
    /\ upsert_calls[3].fn = "upsert_org_air_score"
    /\ upsert_calls[1].company_id = upsert_calls[3].company_id
    /\ upsert_calls[1].scoring_run_id = upsert_calls[3].scoring_run_id
    /\ upsert_calls[1].composite_score # upsert_calls[3].composite_score
    /\ upsert_calls[2].company_id # upsert_calls[1].company_id
    /\ Len(org_air_scores) = 2
    /\ org_air_scores[1].composite_score = upsert_calls[3].composite_score

(***************************************************************************)
(* Claims about the HR factor (specification HRSpec)                       *)
(***************************************************************************)
\* C20: compute_hr_factor returns hr_factor exactly 1.0 with method neutral
\* whenever the jobs-signal count is below min_jobs_for_non_neutral or the
\* portfolio average is <= 0, without dividing by zero, and in every other
\* case a factor within [0, 2].
C20_HRFactorNeutralOrBounded ==
    hr_pc = "done" =>
        /\ hr_result.hr_factor.d > 0
        /\ (\/ hr_call.company_jobs < hr_call.min_jobs_for_non_neutral
            \/ hr_call.portfolio_avg <= 0) =>
              /\ hr_result.hr_factor.n = hr_result.hr_factor.d
              /\ hr_result.method = "neutral"
        /\ 0 <= hr_result.hr_factor.n
        /\ hr_result.hr_factor.n <= 2 * hr_result.hr_factor.d

\* C20 witness: enough job signals and a portfolio average of 0, where the
\* guard against the division by zero returns the neutral factor
C20_Witness_ZeroAverage ==
    /\ hr_pc = "done"
    /\ hr_call.company_jobs >= hr_call.min_jobs_for_non_neutral
    /\ hr_call.company_jobs > 0
    /\ hr_call.portfolio_avg = 0
    /\ hr_result = HRResult([n |-> 1, d |-> 1], "neutral")

\* C21: apply_hr_adjustment_to_talent leaves the score of every dimension
\* other than talent_skills unchanged for any hr_factor, and for
\* talent_skills returns raw_score * hr_factor clamped to [0, 100].
C21_HRAdjustsOnlyTalent ==
    hr_pc = "adjusted" =>
        /\ hr_call.dimension # "talent_skills" => hr_result = hr_call.raw_score * 100
        /\ hr_call.dimension = "talent_skills" =>
              hr_result = Max(0, Min(10000, hr_call.raw_score * hr_call.hr_factor))

\* C21 witness: another dimension with a factor of 1.5 keeps its 40 points,
\* where the factor would have given 60
C21_Witness_OtherDimensionKept ==
    /\ hr_pc = "adjusted"
    /\ hr_call = [dimension |-> "ai_governance", raw_score |-> 40, hr_factor |-> 150]
    /\ hr_result = 4000

\* the feature a result was scored from
FeatureOf(dimension) ==
    DictGet(features, dimension, [evidence_count |-> 0, weighted_signal |-> 0])

ScoreTiers == {2500, 5000, 7500, 9000, 10000}

\* C22: every dimension whose feature has evidence_count > 0 is scored at
\* one of the five tiers 25, 50, 75, 90, 100.
C22_ScoreIsOneOfFiveTiers ==
    dp_pc \in {"pipeline", "scored"} =>
        \A i \in 1..Len(results) :
            (~results[i].default /\ FeatureOf(results[i].dimension).evidence_count > 0)
                => results[i].score \in ScoreTiers

\* a <= b for two HHI values held as fractions
HHILeq(a, b) == a.n * b.d <= b.n * a.d

\* C23: with the sample at or above the minimum, a sample of higher or equal
\* HHI never gets a larger talent penalty factor under the same
\* configuration, the default or a loaded one.
C23_FactorNonIncreasingInHHI ==
    (tp_pc = "engine" /\ tp_result.min_sample_met) =>
        \A functions \in SeqsUpTo(JobFunctions, MaxJobs) :
            LET other == compute_talent_penalty(tp_cfg, functions)
            IN  (other.min_sample_met /\ HHILeq(tp_result.hhi_value, other.hhi_value))
                    => other.penalty_factor <= tp_result.penalty_factor

\* the HHI properties of a sample of `total` entries spread over the given
\* counts: within [0, 1], 0 when empty, 1 when one function holds them all
HHIWellFormed(hhi, counts, total) ==
    /\ hhi.d > 0
    /\ 0 <= hhi.n /\ hhi.n <= hhi.d
    /\ total = 0 => hhi.n = 0
    /\ (total > 0 /\ \E i \in 1..Len(counts) : counts[i].v = total) => hhi.n = hhi.d

\* C24: both compute_hhi functions return a value within [0, 1], 0 for an
\* empty sample, exactly 1 when all entries share one function, and the
\* counts returned for a list of job functions sum to the sample size.
C24_HHIWithinUnitInterval ==
    /\ tp_pc = "engine" =>
          /\ HHIWellFormed(tp_result.hhi_value, tp_result.function_counts, Len(job_functions))
          /\ SumSeq([i \in 1..Len(tp_result.function_counts) |->
                        tp_result.function_counts[i].v]) = Len(job_functions)
          /\ \A i \in 1..Len(tp_result.function_counts) :
                tp_result.function_counts[i].v =
                    Cardinality({j \in 1..Len(job_functions) :
                                    job_functions[j] = tp_result.function_counts[i].k})
    /\ tp_pc = "concentration" =>
          HHIWellFormed(tp_result.hhi_value, function_counts,
                        SumSeq([i \in 1..Len(function_counts) |-> function_counts[i].v]))

\* C24 witness: three jobs of one function give an HHI of exactly 1
C24_Witness_OneFunction ==
    /\ tp_pc = "engine"
    /\ job_functions = <<"other", "other", "other">>
    /\ tp_result.hhi_value = [n |-> 9, d |-> 9]
    /\ tp_result.function_counts = << [k |-> "other", v |-> 3] >>

\* the band of the 5-band scheme for a score in hundredths
BandOfScheme(score) ==
    IF score <= 2000 THEN "Nascent"
    ELSE IF score <= 4000 THEN "Developing"
    ELSE IF score <= 6000 THEN "Progressing"
    ELSE IF score <= 8000 THEN "Advanced"
    ELSE "Leading"

\* C25: the score_band compute_composite returns is the band the 5-band
\* scheme assigns to the composite_score it returns.
C25_BandOfReturnedScore ==
    comp_pc = "done" => comp_result.score_band = BandOfScheme(comp_result.composite_score)

\* the nine canonical source buckets
CanonicalBuckets ==
    {"technology_hiring", "innovation_activity", "digital_presence", "leadership_signals",
     "sec_item_1", "sec_item_1a", "sec_item_7", "glassdoor_reviews", "board_composition"}

\* C26: every evidence item of a pipeline call is put in one of the nine
\* canonical source buckets, and a label containing 'item 1a' in the item-1A
\* bucket.
C26_BucketIsCanonical ==
    dp_pc = "pipeline" =>
        /\ \A i \in 1..Len(evidence_items) :
              /\ _infer_signal_bucket(evidence_items[i]) \in CanonicalBuckets
              /\ Contains(Lower(Strip(evidence_items[i].evidence_type)),
                          <<"i", "t", "e", "m", " ", "1", "a">>)
                    => _infer_signal_bucket(evidence_items[i]) = "sec_item_1a"
        /\ \A j \in 1..Len(source_payloads) : source_payloads[j].k \in CanonicalBuckets

\* what score_dimensions_for_assessment returns for a list of items
PipelinePayloads(items) == build_source_payloads(map_evidence_to_dimensions(items))
PipelineResults(items) ==
    score_dimension_features(map_sources_to_dimension_features(PipelinePayloads(items)))

\* the outputs that do not depend on the order of a dict or a list
PayloadCounts(payloads) ==
    { [source |-> payloads[i].k, count |-> payloads[i].v.count] : i \in 1..Len(payloads) }
ResultValues(res) ==
    { [dimension |-> res[i].dimension, score |-> res[i].score,
       confidence |-> res[i].confidence, evidence_count |-> res[i].evidence_count] :
        i \in 1..Len(res) }

\* C27: the dimension scores, confidences, evidence counts and
\* source-payload counts of score_dimensions_for_assessment are the same for
\* every permutation of the evidence items.
C27_PermutationInvariant ==
    dp_pc = "pipeline" =>
        \A p \in Permutations(1..Len(evidence_items)) :
            LET permuted == [i \in 1..Len(evidence_items) |-> evidence_items[p[i]]]
            IN  /\ PayloadCounts(PipelinePayloads(permuted)) = PayloadCounts(source_payloads)
                /\ ResultValues(PipelineResults(permuted)) = ResultValues(results)

\* C27 witness: two items of different buckets, so that the other order
\* fills the payload dict in the other order
C27_Witness_OrderChangesDict ==
    /\ dp_pc = "pipeline"
    /\ Len(evidence_items) = 2
    /\ Len(source_payloads) = 2
    /\ PipelinePayloads(<<evidence_items[2], evidence_items[1]>>) # source_payloads
    /\ \E i \in 1..Len(results) : results[i].evidence_count > 0

(***************************************************************************)
(* Claims about the dispersion penalty and the portfolio priors            *)
(* (specification PVSpec)                                                  *)
(***************************************************************************)
\* the weighted mean compute_vr starts from, in hundredths
UnpenalizedMean ==
    LET w == [i \in 1..Len(pv_call.weights) |-> pv_call.weights[i].v]
        scores == [i \in 1..Len(w) |->
                      DictGet(pv_call.dimension_scores, pv_call.weights[i].k, 50)]
    IN  IF SumSeq(w) > 0 THEN weighted_mean(scores, w) ELSE 5000

\* compute_vr removes between 0 and 15 points from the weighted mean
ComputeVRPenaltyBounded ==
    pv_pc = "compute_vr" =>
        /\ pv_result.vr <= UnpenalizedMean
        /\ pv_result.vr >= UnpenalizedMean - 1500

VRAdjFor(t, adj) ==
    score_one_company_vr([pv_call EXCEPT !.ticker = t, !.talent_risk_adj = adj]).vr_adj

\* C30: a company with the same dimension rows, sector profile and job
\* postings gets the same vr_score whatever its ticker is: for every other
\* ticker some talent risk adjustment within [0, 1] gives the vr_adj of the
\* call (vr_adj does not decrease as the adjustment grows).
C30_ScoreIndependentOfTicker ==
    pv_pc = "score_one_company" =>
        \A t \in Tickers :
            /\ VRAdjFor(t, 0) <= pv_result.vr_adj
            /\ pv_result.vr_adj <= VRAdjFor(t, 100)

\* C29: every DimensionFeature that map_sources_to_dimension_features
\* produces has weighted_signal >= 0, evidence_count >= 0 and
\* reliability_weighted within [0, 1], whatever source buckets the payloads
\* hold.
C29_FeatureRanges ==
    dp_pc \in {"pipeline", "features"} =>
        \A i \in 1..Len(features) :
            /\ features[i].v.weighted_signal >= 0
            /\ features[i].v.evidence_count >= 0
            /\ features[i].v.reliability_weighted >= 0
            /\ features[i].v.reliability_weighted <= 100 * WScale

====
